---------------------------- MODULE Spec2Model ----------------------------
(***************************************************************************)
(* AlphaHunter background polling service (realtime_service.py): the       *)
(* file-based control channel, the trading-time predicate, the status      *)
(* reporter, the log manager and the scheduler loop run_service.           *)
(***************************************************************************)
EXTENDS Integers, Sequences, FiniteSets, TLC

(***************************************************************************)
(* Bounds of the model.                                                    *)
(***************************************************************************)
\* Loop iterations explored in one run of run_service.
MaxIter == 2
\* External processes racing on set_service_control.
NumWriters == 2
\* Successive calls of _append_log, and of save_config, explored on their own.
MaxCalls == 2

(***************************************************************************)
(* Values.  Python values that travel through JSON are modelled by their   *)
(* JSON text ("true", "false", "1", "0", "null"); bool(v) is Truthy(v).    *)
(***************************************************************************)
PyTrue == "true"
PyFalse == "false"
PyBools == {PyTrue, PyFalse}
PyVals == {PyTrue, PyFalse, "1", "0", "null"}

Truthy(v) == v \in {PyTrue, "1"}
PyBool(v) == IF Truthy(v) THEN PyTrue ELSE PyFalse

\* A JSON object: a function from a set of keys to values.
EmptyDict == [k \in {} |-> PyFalse]
DictGet(d, k, default) == IF k \in DOMAIN d THEN d[k] ELSE default
DictSet(d, k, v) == [x \in (DOMAIN d) \cup {k} |-> IF x = k THEN v ELSE d[x]]

\* A file on disk: missing, present but not parseable (empty, truncated,
\* garbage), or present with a JSON object.
AbsentFile == [st |-> "absent", obj |-> EmptyDict]
CorruptFile == [st |-> "corrupt", obj |-> EmptyDict]
OkFile(o) == [st |-> "ok", obj |-> o]

(***************************************************************************)
(* Control channel: control.json                                           *)
(***************************************************************************)
ControlKeys == {"paused", "stop"}
ControlDicts == UNION {[D -> PyVals] : D \in SUBSET ControlKeys}
ControlFiles == {AbsentFile, CorruptFile} \cup {OkFile(d) : d \in ControlDicts}
DefaultControl == [k \in ControlKeys |-> PyFalse]

\* _read_control, with the exists() test and the try/except replaced by
\* a fallthrough that returns the file's content whatever it is.
ReadControlNoFallback(f) == f.obj

\* _read_control: the parsed object when the file exists and parses,
\* {"paused": False, "stop": False} otherwise.
ReadControl(f) == IF f.st = "ok" THEN f.obj ELSE DefaultControl

\* The object _write_control persists, without the bool() coercion and the
\* key filter.
CleanControlRaw(ctrl) == ctrl

\* The object _write_control persists: exactly paused and stop, each bool().
CleanControl(ctrl) ==
    [k \in ControlKeys |-> PyBool(DictGet(ctrl, k, PyFalse))]

\* set_service_control's merge, overwriting the fields that were omitted
\* with False.
MergeControlReset(ctrl, paused, stop) ==
    [k \in ControlKeys |->
        IF k = "paused" THEN (IF paused = "none" THEN PyFalse ELSE PyBool(paused))
        ELSE (IF stop = "none" THEN PyFalse ELSE PyBool(stop))]

\* set_service_control's merge: an argument that is not None replaces the
\* field; "none" stands for an omitted argument.
MergeControl(ctrl, paused, stop) ==
    LET c1 == IF paused # "none" THEN DictSet(ctrl, "paused", PyBool(paused)) ELSE ctrl
    IN  IF stop # "none" THEN DictSet(c1, "stop", PyBool(stop)) ELSE c1

\* set_service_control with no other process in between: read, merge,
\* write the temporary file, rename.
SetServiceControl(f, paused, stop) ==
    OkFile(CleanControl(MergeControl(ReadControl(f), paused, stop)))

OptBools == {"none", PyTrue, PyFalse}

(***************************************************************************)
(* Trading-time predicate                                                  *)
(***************************************************************************)
\* A datetime: day number (day 0 is a Monday), hour, minute.
WeekdayOf(date) == date % 7
NoneTime == [date |-> -1, hour |-> -1, minute |-> -1]

\* is_trading_time_now with the window bounds exclusive.
is_trading_time_exclusive(dt) ==
    IF WeekdayOf(dt.date) >= 5 THEN FALSE
    ELSE LET hm == dt.hour * 100 + dt.minute
         IN  (930 < hm /\ hm < 1130) \/ (1300 < hm /\ hm < 1500)

is_trading_time_now(dt) ==
    IF WeekdayOf(dt.date) >= 5 THEN FALSE
    ELSE LET hm == dt.hour * 100 + dt.minute
             morning == 930 <= hm /\ hm <= 1130
             afternoon == 1300 <= hm /\ hm <= 1500
         IN  morning \/ afternoon


(***************************************************************************)
(* Service configuration: realtime_config.json                             *)
(***************************************************************************)
Codes == {"A", "B"}

DEFAULT_SERVICE_CONFIG ==
    [tracked_codes |-> {}, poll_interval_sec |-> 300,
     alert_threshold_pct |-> 3, retention_days |-> 7]

\* load_config that hands back whatever it finds at the path.
load_config_no_fallback(f) == f.obj

\* load_config: the parsed file when it exists and parses, else a copy of
\* the defaults.
load_config(f) == IF f.st = "ok" THEN f.obj ELSE DEFAULT_SERVICE_CONFIG

\* save_config without the key filter: the input goes to the file as it is.
save_config_unfiltered(cfg_in) == cfg_in

\* save_config, lines 50-51: the dictionary that is serialized, a copy of
\* the defaults updated with the input's known keys.
save_config(cfg_in) ==
    [k \in DOMAIN DEFAULT_SERVICE_CONFIG |->
        IF k \in DOMAIN cfg_in THEN cfg_in[k] ELSE DEFAULT_SERVICE_CONFIG[k]]

\* save_config, line 52: CONFIG_PATH.write_text writes the file in place.
\* The open can fail (the file is untouched), or the write can fail after
\* the open has truncated the file.
ConfigWriteOutcomes == {"written", "open_failed", "write_failed"}
ConfigWrite(target, obj, outcome) ==
    IF outcome = "written" THEN OkFile(obj)
    ELSE IF outcome = "open_failed" THEN target
    ELSE CorruptFile

Max(a, b) == IF a >= b THEN a ELSE b
Min(a, b) == IF a <= b THEN a ELSE b

\* The poll interval without the floor of 30 seconds.
PollIntervalNoFloor(cfg) == DictGet(cfg, "poll_interval_sec", 300)

\* run_service: poll_interval = max(30, int(cfg.get("poll_interval_sec", 300)))
PollInterval(cfg) == Max(30, DictGet(cfg, "poll_interval_sec", 300))

(***************************************************************************)
(* Atomic Store                                                            *)
(***************************************************************************)
\* A write that truncates and rewrites the target itself: a failure leaves
\* the target unparseable.
InPlaceWrite(target, obj, ok) == IF ok THEN OkFile(obj) ELSE CorruptFile

\* _atomic_write_json / _atomic_write_csv: the content goes to the
\* temporary file, which is then renamed over the target; when either step
\* fails (ok = FALSE) the exception is raised and the target is untouched.
AtomicWrite(target, obj, ok) == IF ok THEN OkFile(obj) ELSE target

AtomicWriteOutcomes == {"written", "tmp_open_failed", "tmp_write_failed", "rename_failed"}

\* A writer that opens the target itself and writes into it.
InPlaceWriteSteps(target, tmp, obj, outcome) ==
    [target |-> IF outcome = "written" THEN OkFile(obj)
                ELSE IF outcome = "tmp_open_failed" THEN target
                ELSE CorruptFile,
     tmp |-> tmp,
     raised |-> outcome # "written"]

\* The two steps of _atomic_write_json, _atomic_write_csv and
\* _write_control: the content is written to the temporary path (the open
\* can fail; the write can fail after the open has truncated the temporary
\* file), then the temporary file is renamed over the target (the rename
\* can fail, and leaves the temporary file).  Nothing is caught: every
\* failure is raised to the caller.
AtomicWriteSteps(target, tmp, obj, outcome) ==
    LET tmp1 == IF outcome = "tmp_open_failed" THEN tmp
                ELSE IF outcome = "tmp_write_failed" THEN CorruptFile
                ELSE OkFile(obj)
    IN  IF outcome = "written"
        THEN [target |-> tmp1, tmp |-> AbsentFile, raised |-> FALSE]
        ELSE [target |-> target, tmp |-> tmp1, raised |-> TRUE]

(***************************************************************************)
(* Status reporter: service_status.json                                    *)
(***************************************************************************)
StatusKeys ==
    {"running", "pid", "start_time", "last_poll_time", "progress_pct",
     "error_count", "trading", "paused", "stop_requested"}

\* The status dictionaries run_service builds; pid stands for os.getpid().
StatusObj(running, start, last_poll, errors, trading, paused, stop_req) ==
    [running |-> running, pid |-> "pid", start_time |-> start,
     last_poll_time |-> last_poll, progress_pct |-> 0,
     error_count |-> errors, trading |-> trading, paused |-> paused,
     stop_requested |-> stop_req]

\* The progress update: json.loads of the status file, {} when that fails.
ReadStatusOrEmpty(f) == IF f.st = "ok" THEN f.obj ELSE EmptyDict

\* The percentage without the clamp.
ProgressPctUnclamped(elapsed, poll_interval) == (elapsed * 100) \div poll_interval

\* pct = max(0.0, min(100.0, (elapsed / poll_interval) * 100.0))
ProgressPct(elapsed, poll_interval) ==
    Max(0, Min(100, (elapsed * 100) \div poll_interval))

(***************************************************************************)
(* Snapshot provider and one_poll                                          *)
(***************************************************************************)
\* A row of the provider's table: instrument code, percent change, and
\* whether the percent change is NaN.
SpotRow(code, pct, nan) == [code |-> code, pct |-> pct, nan |-> nan]

\* The provider's table: which columns it has, and its rows.
Frame(has_code, has_price, has_pct, rows) ==
    [has_code |-> has_code, has_price |-> has_price, has_pct |-> has_pct,
     rows |-> rows]

Abs(x) == IF x < 0 THEN -x ELSE x

\* The alert flag with a strict comparison.
AlertFlagStrict(frame, row, threshold) ==
    frame.has_pct /\ ~row.nan /\ Abs(row.pct) > threshold

\* tracked_df["alert"] = tracked_df["pct_chg"].abs() >= alert_threshold_pct,
\* False when there is no pct_chg column (a NaN compares False).
AlertFlag(frame, row, threshold) ==
    frame.has_pct /\ ~row.nan /\ Abs(row.pct) >= threshold

\* A row of tracked_df as one_poll returns it.
TrackedRow(frame, row, threshold, at) ==
    [code |-> row.code, has_pct |-> frame.has_pct, pct |-> row.pct,
     nan |-> row.nan, alert |-> AlertFlag(frame, row, threshold), at |-> at]

\* one_poll that treats a table with no tracked row as a failure.
one_poll_raises_on_empty(frame, tracked_codes, threshold, at) ==
    LET IsTracked(r) == r.code \in tracked_codes
        tracked == SelectSeq(frame.rows, IsTracked)
    IN  IF Len(tracked) = 0 \/ ~frame.has_code THEN [raised |-> TRUE, rows |-> <<>>]
        ELSE IF ~frame.has_price THEN [raised |-> FALSE, rows |-> <<>>]
        ELSE [raised |-> FALSE,
              rows |-> [i \in 1..Len(tracked) |->
                          TrackedRow(frame, tracked[i], threshold, at)]]

\* one_poll on the table the provider returned: "raise" when
\* clean_spot_df finds no code column, otherwise the rows of tracked_df
\* (empty for an empty table, no price column, or no tracked row).
one_poll(frame, tracked_codes, threshold, at) ==
    IF Len(frame.rows) = 0 THEN [raised |-> FALSE, rows |-> <<>>]
    ELSE IF ~frame.has_code THEN [raised |-> TRUE, rows |-> <<>>]
    ELSE IF ~frame.has_price THEN [raised |-> FALSE, rows |-> <<>>]
    ELSE LET IsTracked(r) == r.code \in tracked_codes
             tracked == SelectSeq(frame.rows, IsTracked)
         IN  [raised |-> FALSE,
              rows |-> [i \in 1..Len(tracked) |->
                          TrackedRow(frame, tracked[i], threshold, at)]]

(***************************************************************************)
(* Latest snapshot file: realtime_latest.csv                               *)
(***************************************************************************)
\* A heartbeat stamped with no time at all.
HeartbeatNoTime(t) == [kind |-> "heartbeat", at |-> NoneTime, rows |-> <<>>]

\* The heartbeat table: one row, collection time and the off-hours status.
Heartbeat(t) == [kind |-> "heartbeat", at |-> t, rows |-> <<>>]
\* The tracked rows of a poll.
Snapshot(t, rows) == [kind |-> "snapshot", at |-> t, rows |-> rows]

(***************************************************************************)
(* Log manager: logs/prices_YYYYMMDD.csv and their .gz archives.  The log  *)
(* directory is a function from the dates that have a file to the file.    *)
(***************************************************************************)
NoFiles == [d \in {} |-> 0]
FilePut(dir, d, file) == [x \in (DOMAIN dir) \cup {d} |-> IF x = d THEN file ELSE dir[x]]
FileDel(dir, ds) == [x \in (DOMAIN dir) \ ds |-> dir[x]]

\* An append that writes the header every time.
AppendRowsHeaderAlways(logs, day, rows) ==
    IF day \in DOMAIN logs
    THEN FilePut(logs, day, [headers |-> logs[day].headers + 1,
                             rows |-> logs[day].rows \o rows])
    ELSE FilePut(logs, day, [headers |-> 1, rows |-> rows])

\* df.to_csv(log_path, mode="a", header=not log_path.exists()): the header
\* goes in only when the append creates the file.
AppendRows(logs, day, rows) ==
    IF day \in DOMAIN logs
    THEN FilePut(logs, day, [headers |-> logs[day].headers,
                             rows |-> logs[day].rows \o rows])
    ELSE FilePut(logs, day, [headers |-> 1, rows |-> rows])

\* Housekeeping candidates chosen without looking for an existing archive.
ToCompressAll(logs, archives, day) ==
    {d \in DOMAIN logs : d # day}

\* Housekeeping candidates that include the log being appended to.
ToCompressWithToday(logs, archives, day) ==
    {d \in DOMAIN logs : d \notin DOMAIN archives}

\* The logs housekeeping compresses: every prices_*.csv but today's whose
\* archive does not exist yet.
ToCompress(logs, archives, day) ==
    {d \in DOMAIN logs : d # day /\ d \notin DOMAIN archives}

\* The archive gzip writes from a log file.
ArchiveOf(log) == [complete |-> TRUE, headers |-> log.headers, rows |-> log.rows]
\* What is left at the archive's path when compression stops midway.
PartialArchive == [complete |-> FALSE, headers |-> 0, rows |-> <<>>]

\* Retention that also deletes the archive dated exactly at the cutoff.
ExpiredInclusive(archives, day, retention_days) ==
    {d \in DOMAIN archives : d <= day - retention_days}

\* The archives the retention pass deletes: those dated before
\* now.date() - retention_days.
Expired(archives, day, retention_days) ==
    {d \in DOMAIN archives : d < day - retention_days}

\* What happened inside one _append_log call: the append was refused by
\* the file system; the logs compressed; the logs whose unlink failed; the
\* log whose compression raised, and whether its archive file was already
\* created; whether the retention pass was reached; the expired archives
\* whose unlink failed.
Outcome(refused, compressed, kept, bad, partial, swept, stuck) ==
    [refused |-> refused, compressed |-> compressed, kept |-> kept, bad |-> bad,
     partial |-> partial, swept |-> swept, stuck |-> stuck]

\* Housekeeping that runs to the end: the logs in `done` are compressed,
\* those in `kept` survive their unlink (its failure is swallowed), and the
\* expired archives outside `stuck` are deleted.
HousekeepAll(logs, archives, day, retention_days, kept, stuck) ==
    LET comp == ToCompress(logs, archives, day)
        arch1 == [d \in (DOMAIN archives) \cup comp |->
                    IF d \in comp THEN ArchiveOf(logs[d]) ELSE archives[d]]
        logs1 == FileDel(logs, comp \ kept)
        gone == Expired(arch1, day, retention_days) \ stuck
    IN  [raised |-> FALSE, logs |-> logs1, archives |-> FileDel(arch1, gone),
         what |-> Outcome(FALSE, comp, kept, {}, FALSE, TRUE, stuck)]

\* A failed compression that has already removed the log it was reading.
HousekeepFailUnlinkFirst(logs, archives, day, done, bad, partial) ==
    LET arch1 == [d \in (DOMAIN archives) \cup done |->
                    IF d \in done THEN ArchiveOf(logs[d]) ELSE archives[d]]
        arch2 == IF partial THEN FilePut(arch1, bad, PartialArchive) ELSE arch1
    IN  [raised |-> TRUE, logs |-> FileDel(logs, done \cup {bad}), archives |-> arch2,
         what |-> Outcome(FALSE, done, {}, {bad}, partial, FALSE, {})]

\* Housekeeping in which compressing `bad` raises after the logs in `done`
\* were handled: the exception leaves _append_log, the other candidates and
\* the retention pass are not reached; `partial` tells whether the archive
\* file of `bad` was already created.
HousekeepFail(logs, archives, day, done, bad, partial) ==
    LET arch1 == [d \in (DOMAIN archives) \cup done |->
                    IF d \in done THEN ArchiveOf(logs[d]) ELSE archives[d]]
        arch2 == IF partial THEN FilePut(arch1, bad, PartialArchive) ELSE arch1
    IN  [raised |-> TRUE, logs |-> FileDel(logs, done), archives |-> arch2,
         what |-> Outcome(FALSE, done, {}, {bad}, partial, FALSE, {})]

\* _append_log with housekeeping ahead of the append: a compression that
\* raises leaves before the rows are written.
AppendLogHousekeepingFirst(logs, archives, rows, day, retention_days, faulty) ==
    LET logs0 == AppendRows(logs, day, rows)
        comp == ToCompress(logs, archives, day)
    IN  {HousekeepAll(logs0, archives, day, retention_days, {}, {})}
        \cup (IF faulty
              THEN UNION {{HousekeepFail(logs, archives, day, done, bad, partial) :
                             done \in SUBSET (comp \ {bad}), partial \in BOOLEAN} :
                          bad \in comp}
              ELSE {})

\* Every result _append_log can have: the append fails (nothing changes),
\* or it succeeds and housekeeping ends in one of the ways above.  With
\* faulty = FALSE no file operation fails.
AppendLogResults(logs, archives, rows, day, retention_days, faulty) ==
    LET logs0 == AppendRows(logs, day, rows)
        comp == ToCompress(logs0, archives, day)
        clean == HousekeepAll(logs0, archives, day, retention_days, {}, {})
    IN  IF ~faulty THEN {clean}
        ELSE {[raised |-> TRUE, logs |-> logs, archives |-> archives,
               what |-> Outcome(TRUE, {}, {}, {}, FALSE, FALSE, {})]}
             \cup {HousekeepAll(logs0, archives, day, retention_days, kept, stuck) :
                     kept \in SUBSET comp,
                     stuck \in SUBSET Expired(archives, day, retention_days)}
             \cup UNION {{HousekeepFail(logs0, archives, day, done, bad, partial) :
                            done \in SUBSET (comp \ {bad}), partial \in BOOLEAN} :
                         bad \in comp}


(***************************************************************************)
(* State                                                                   *)
(***************************************************************************)
VARIABLES
    \* files under .cache/realtime
    ctlFile,        \* control.json
    cfgFile,        \* realtime_config.json
    statusFile,     \* service_status.json
    latestFile,     \* realtime_latest.csv
    logs,           \* logs/prices_<date>.csv
    archives,       \* logs/prices_<date>.csv.gz
    \* run_service
    pc,             \* where run_service is
    loop_once,      \* its argument
    cfg,            \* the configuration loaded at start
    error_count,
    start_ts,
    now,            \* the iteration's datetime.now()
    ctrl,           \* the iteration's _read_control()
    trading_flag,
    iter,           \* iterations begun
    \* observation of the current iteration
    trace,          \* its I/O operations, in order
    published,      \* the last object handed to the status writer
    \* a caller of the control channel
    callPrev,       \* control.json as it was before the last set call
    callArgs,       \* the arguments of the last set call
    \* processes inside set_service_control at the same time
    tmpFile,        \* control.tmp (per path, where several writers are tried)
    fdAt,           \* per writer: where the file it has open is now
    wpc,            \* per writer: where it is in set_service_control
    wctrl,          \* per writer: the dictionary it is about to write
    written,        \* the states the writers have written so far
    ctlInit,        \* the file they write, before any of them started
    fellBack,       \* the last read found that file unparseable
    \* observation of the calls made
    fetched,        \* the table get_realtime_spot returned in this iteration
    lastCall,       \* the last _append_log call: its arguments and what failed
    recorded,       \* per day, the rows appended to its log so far
    cfgArg,         \* the dictionary handed to the last save_config call
    watch           \* control reads and provider calls since stop or paused was set

fileVars == <<ctlFile, cfgFile, statusFile, latestFile, logs, archives>>
loopVars == <<pc, loop_once, cfg, error_count, start_ts, now, ctrl,
              trading_flag, iter, trace, published>>
callVars == <<callPrev, callArgs>>
raceVars == <<tmpFile, fdAt, wpc, wctrl, written, ctlInit, fellBack>>
obsVars == <<fetched, lastCall, recorded, cfgArg, watch>>
auxVars == <<callVars, raceVars, obsVars>>

(***************************************************************************)
(* The inputs of the scheduler loop                                       *)
(***************************************************************************)
\* A Thursday and the Friday after it.
LoopDates == {3, 4}
LoopHours == {10, 12}
LoopTimes == {[date |-> d, hour |-> h, minute |-> 0] : d \in LoopDates, h \in LoopHours}

TimeLeq(a, b) ==
    \/ a.date < b.date
    \/ a.date = b.date /\ a.hour * 60 + a.minute <= b.hour * 60 + b.minute

\* Seconds an iteration's work took, as read by the progress update.
ElapsedSamples == {15, 450}

LoopConfigFiles ==
    {AbsentFile,
     OkFile([tracked_codes |-> {"A"}, poll_interval_sec |-> 10,
             alert_threshold_pct |-> 3, retention_days |-> 1])}

LoopControlFiles ==
    {AbsentFile, CorruptFile, OkFile(DefaultControl),
     OkFile([k \in {"stop"} |-> "1"])}

\* What get_realtime_spot can do: raise, or return one of these tables.
ProviderFrames ==
    {Frame(TRUE, TRUE, TRUE, <<>>),
     Frame(TRUE, TRUE, TRUE, <<SpotRow("A", 4, FALSE)>>),
     Frame(TRUE, TRUE, TRUE, <<SpotRow("B", 4, FALSE)>>),
     Frame(TRUE, TRUE, TRUE,
           <<SpotRow("A", -3, FALSE), SpotRow("B", 4, FALSE), SpotRow("A", 2, FALSE)>>),
     Frame(TRUE, TRUE, FALSE, <<SpotRow("A", 0, TRUE), SpotRow("B", 0, TRUE)>>),
     Frame(FALSE, TRUE, TRUE, <<SpotRow("A", 4, FALSE)>>),
     Frame(TRUE, FALSE, TRUE, <<SpotRow("A", 4, FALSE)>>)}

Ev(op, ok, n) == [op |-> op, ok |-> ok, n |-> n]

(***************************************************************************)
(* run_service                                                             *)
(***************************************************************************)
\* The status of lines 191-201.
InitStatus(t) ==
    StatusObj(TRUE, t, NoneTime, 0, is_trading_time_now(t), PyFalse, FALSE)

\* A stop status that still reports the service as running.
StopStatusStillRunning ==
    StatusObj(TRUE, start_ts, NoneTime, error_count, trading_flag,
              DictGet(ctrl, "paused", PyFalse), TRUE)

\* The status of lines 208-218.
StopStatus ==
    StatusObj(FALSE, start_ts, NoneTime, error_count, trading_flag,
              DictGet(ctrl, "paused", PyFalse), TRUE)

\* The status of lines 222-232.
PausedStatus ==
    StatusObj(TRUE, start_ts, NoneTime, error_count, trading_flag, PyTrue, FALSE)

\* The status of lines 269-279.
IdleStatus ==
    StatusObj(TRUE, start_ts, NoneTime, error_count, trading_flag, PyFalse, FALSE)

InitFiles ==
    /\ ctlFile \in LoopControlFiles
    /\ cfgFile \in LoopConfigFiles
    /\ statusFile = AbsentFile
    /\ latestFile = AbsentFile
    /\ logs = NoFiles
    /\ archives = NoFiles

InitLoop ==
    /\ pc = "init"
    /\ loop_once \in BOOLEAN
    /\ cfg = DEFAULT_SERVICE_CONFIG
    /\ error_count = 0
    /\ start_ts = NoneTime
    /\ now = NoneTime
    /\ ctrl = DefaultControl
    /\ trading_flag = FALSE
    /\ iter = 0
    /\ trace = <<>>
    /\ published = EmptyDict

\* No table fetched, no _append_log call made.
NoFrame == Frame(FALSE, FALSE, FALSE, <<>>)
NoOutcome == Outcome(FALSE, {}, {}, {}, FALSE, FALSE, {})
NoCall == [day |-> -1, rows |-> <<>>, retention_days |-> 0, what |-> NoOutcome]

\* The control channel is not being watched; or it is, and this many
\* control reads and provider calls were made since stop or paused was set.
NotWatching == [reads |-> -1, calls |-> -1]
Watched(reads, calls) == [reads |-> reads, calls |-> calls]
\* The watcher's record after a step, when there is a watcher.
Watch(new) == watch' = IF watch = NotWatching THEN watch ELSE new
\* control.json, as _read_control returns it, has stop or paused set.
FlagSet(f) ==
    \/ Truthy(DictGet(ReadControl(f), "stop", PyFalse))
    \/ Truthy(DictGet(ReadControl(f), "paused", PyFalse))

\* Nothing observed yet.
InitObs ==
    /\ fetched = NoFrame
    /\ lastCall = NoCall
    /\ recorded = NoFiles
    /\ cfgArg = EmptyDict
    /\ watch = NotWatching

Writers == 1..NumWriters

\* Nobody is calling the control channel.
InitCall ==
    /\ callPrev = AbsentFile
    /\ callArgs = <<"none", "none">>

InitRace ==
    /\ tmpFile = AbsentFile
    /\ fdAt = [w \in Writers |-> "none"]
    /\ wpc = [w \in Writers |-> "idle"]
    /\ wctrl = [w \in Writers |-> DefaultControl]
    /\ written = {}
    /\ ctlInit = AbsentFile
    /\ fellBack = FALSE

Init == InitFiles /\ InitLoop /\ InitCall /\ InitRace /\ InitObs

\* _atomic_write_json(obj, STATUS_PATH) as a step of run_service outside any
\* try: the write lands and the loop moves to `next`, or it raises and the
\* exception leaves run_service.
PublishOrCrash(obj, ok, next) ==
    /\ statusFile' = AtomicWrite(statusFile, obj, ok)
    /\ published' = obj
    /\ pc' = IF ok THEN next ELSE "crashed"

\* Lines 178-201: load the configuration, write the initial status.
Start ==
    /\ pc = "init"
    /\ cfg' = load_config(cfgFile)
    /\ \E t \in LoopTimes, ok \in BOOLEAN :
        /\ start_ts' = t
        /\ now' = t
        /\ PublishOrCrash(InitStatus(t), ok, "top")
        /\ trace' = <<Ev("status", ok, 0)>>
    /\ UNCHANGED <<ctlFile, cfgFile, latestFile, logs, archives>>
    /\ UNCHANGED <<loop_once, error_count, ctrl, trading_flag, iter>>
    /\ UNCHANGED auxVars

\* The top of an iteration with the control state read once and for all.
ReadControlStepCached ==
    /\ pc = "top"
    /\ iter < MaxIter
    /\ \E t \in LoopTimes : TimeLeq(now, t) /\ now' = t
    /\ ctrl' = ctrl
    /\ trading_flag' = is_trading_time_now(now')
    /\ iter' = iter + 1
    /\ trace' = <<>>
    /\ fetched' = NoFrame
    /\ Watch(IF FlagSet(ctlFile) THEN Watched(1, watch.calls) ELSE Watched(0, 0))
    /\ pc' = "branch"
    /\ UNCHANGED fileVars
    /\ UNCHANGED <<loop_once, cfg, error_count, start_ts, published>>
    /\ UNCHANGED <<callVars, raceVars, lastCall, recorded, cfgArg>>

\* The top of an iteration that loads the configuration again.
ReadControlStepReloading ==
    /\ pc = "top"
    /\ iter < MaxIter
    /\ \E t \in LoopTimes : TimeLeq(now, t) /\ now' = t
    /\ ctrl' = ReadControl(ctlFile)
    /\ cfg' = load_config(cfgFile)
    /\ trading_flag' = is_trading_time_now(now')
    /\ iter' = iter + 1
    /\ trace' = <<>>
    /\ fetched' = NoFrame
    /\ Watch(IF FlagSet(ctlFile) THEN Watched(1, watch.calls) ELSE Watched(0, 0))
    /\ pc' = "branch"
    /\ UNCHANGED fileVars
    /\ UNCHANGED <<loop_once, error_count, start_ts, published>>
    /\ UNCHANGED <<callVars, raceVars, lastCall, recorded, cfgArg>>

\* Lines 204-206: the top of an iteration.
ReadControlStep ==
    /\ pc = "top"
    /\ iter < MaxIter
    /\ \E t \in LoopTimes : TimeLeq(now, t) /\ now' = t
    /\ ctrl' = ReadControl(ctlFile)
    /\ trading_flag' = is_trading_time_now(now')
    /\ iter' = iter + 1
    /\ trace' = <<>>
    /\ fetched' = NoFrame
    /\ Watch(IF FlagSet(ctlFile) THEN Watched(1, watch.calls) ELSE Watched(0, 0))
    /\ pc' = "branch"
    /\ UNCHANGED fileVars
    /\ UNCHANGED <<loop_once, cfg, error_count, start_ts, published>>
    /\ UNCHANGED <<callVars, raceVars, lastCall, recorded, cfgArg>>

StopSeen == Truthy(DictGet(ctrl, "stop", PyFalse))
PausedSeen == Truthy(DictGet(ctrl, "paused", PyFalse))
\* The polling condition without the trading-time test.
PollWantedAnyTime == DictGet(cfg, "tracked_codes", {}) # {}
PollWanted == trading_flag /\ DictGet(cfg, "tracked_codes", {}) # {}

\* A stop branch that takes the stop request back when it leaves.
StopBranchClearsStop ==
    /\ pc = "branch"
    /\ StopSeen
    /\ \E ok \in BOOLEAN :
        /\ PublishOrCrash(StopStatus, ok, "done")
        /\ trace' = Append(trace, Ev("status", ok, 0))
    /\ ctlFile' = SetServiceControl(ctlFile, "none", PyFalse)
    /\ UNCHANGED <<cfgFile, latestFile, logs, archives>>
    /\ UNCHANGED <<loop_once, cfg, error_count, start_ts, now, ctrl, trading_flag, iter>>
    /\ UNCHANGED auxVars

\* Lines 207-219: stop.
StopBranch ==
    /\ pc = "branch"
    /\ StopSeen
    /\ \E ok \in BOOLEAN :
        /\ PublishOrCrash(StopStatus, ok, "done")
        /\ trace' = Append(trace, Ev("status", ok, 0))
    /\ UNCHANGED <<ctlFile, cfgFile, latestFile, logs, archives>>
    /\ UNCHANGED <<loop_once, cfg, error_count, start_ts, now, ctrl, trading_flag, iter>>
    /\ UNCHANGED auxVars

\* Lines 221-232: paused, up to the sleep.
PausedBranch ==
    /\ pc = "branch"
    /\ ~StopSeen
    /\ PausedSeen
    /\ \E ok \in BOOLEAN :
        /\ PublishOrCrash(PausedStatus, ok, "pause_sleep")
        /\ trace' = Append(trace, Ev("status", ok, 0))
    /\ UNCHANGED <<ctlFile, cfgFile, latestFile, logs, archives>>
    /\ UNCHANGED <<loop_once, cfg, error_count, start_ts, now, ctrl, trading_flag, iter>>
    /\ UNCHANGED auxVars

\* Lines 233-236: time.sleep(2), then break or continue.
PauseSleep ==
    /\ pc = "pause_sleep"
    /\ trace' = Append(trace, Ev("sleep", TRUE, 2))
    /\ pc' = IF loop_once THEN "done" ELSE "top"
    /\ UNCHANGED fileVars
    /\ UNCHANGED <<loop_once, cfg, error_count, start_ts, now, ctrl, trading_flag,
                   iter, published>>
    /\ UNCHANGED auxVars

\* The status a poll publishes (lines 244-254).
PollStatus ==
    StatusObj(TRUE, start_ts, now, error_count, trading_flag, PyFalse, FALSE)

\* Lines 255-258: an exception raised inside the try.  tr, lat, lg and ar
\* are the trace and the files as the failed step left them.
PollFailed(tr, lat, lg, ar) ==
    /\ trace' = tr
    /\ latestFile' = lat
    /\ logs' = lg
    /\ archives' = ar
    /\ error_count' = error_count + 1
    /\ pc' = "backoff"

\* Lines 244-254: the status write that ends the try; its failure is
\* caught like any other.
PollPublish(tr, lat, lg, ar) ==
    \E ok \in BOOLEAN :
        /\ statusFile' = AtomicWrite(statusFile, PollStatus, ok)
        /\ published' = PollStatus
        /\ IF ok
           THEN /\ trace' = Append(tr, Ev("status", TRUE, 0))
                /\ latestFile' = lat
                /\ logs' = lg
                /\ archives' = ar
                /\ error_count' = error_count
                /\ pc' = "tail"
           ELSE PollFailed(Append(tr, Ev("status", FALSE, 0)), lat, lg, ar)

\* The polling branch with the status written even when the log append
\* has raised.
PollWithStatusDespiteLog(frame) ==
    \E at \in {now} :
        /\ LET r == one_poll(frame, DictGet(cfg, "tracked_codes", {}),
                             DictGet(cfg, "alert_threshold_pct", 3), at)
               t1 == Append(trace, Ev("provider", TRUE, 0))
           IN  IF r.raised
               THEN /\ PollFailed(Append(t1, Ev("one_poll", FALSE, 0)),
                                  latestFile, logs, archives)
                    /\ UNCHANGED <<statusFile, published>>
               ELSE IF Len(r.rows) = 0
               THEN PollPublish(t1, latestFile, logs, archives)
               ELSE \E okL \in BOOLEAN :
                      IF ~okL
                      THEN /\ PollFailed(Append(t1, Ev("latest", FALSE, Len(r.rows))),
                                         latestFile, logs, archives)
                           /\ UNCHANGED <<statusFile, published>>
                      ELSE LET lat == AtomicWrite(latestFile, Snapshot(now, r.rows), TRUE)
                               t2 == Append(t1, Ev("latest", TRUE, Len(r.rows)))
                           IN  \E res \in AppendLogResults(logs, archives, r.rows, now.date,
                                            DictGet(cfg, "retention_days", 7), TRUE) :
                                 PollPublish(Append(t2, Ev("log", ~res.raised, Len(r.rows))),
                                             lat, res.logs, res.archives)

\* Lines 240-243 for a table the provider returned.
PollWith(frame) ==
    \* The collection time one_poll stamps is taken to be the iteration's.
    \E at \in {now} :
        /\ LET r == one_poll(frame, DictGet(cfg, "tracked_codes", {}),
                             DictGet(cfg, "alert_threshold_pct", 3), at)
               t1 == Append(trace, Ev("provider", TRUE, 0))
           IN  IF r.raised
               THEN /\ PollFailed(Append(t1, Ev("one_poll", FALSE, 0)),
                                  latestFile, logs, archives)
                    /\ UNCHANGED <<statusFile, published>>
               ELSE IF Len(r.rows) = 0
               THEN PollPublish(t1, latestFile, logs, archives)
               ELSE \E okL \in BOOLEAN :
                      IF ~okL
                      THEN /\ PollFailed(Append(t1, Ev("latest", FALSE, Len(r.rows))),
                                         latestFile, logs, archives)
                           /\ UNCHANGED <<statusFile, published>>
                      ELSE LET lat == AtomicWrite(latestFile, Snapshot(now, r.rows), TRUE)
                               t2 == Append(t1, Ev("latest", TRUE, Len(r.rows)))
                           IN  \E res \in AppendLogResults(logs, archives, r.rows, now.date,
                                            DictGet(cfg, "retention_days", 7), TRUE) :
                                 IF res.raised
                                 THEN /\ PollFailed(Append(t2, Ev("log", FALSE, Len(r.rows))),
                                                    lat, res.logs, res.archives)
                                      /\ UNCHANGED <<statusFile, published>>
                                 ELSE PollPublish(Append(t2, Ev("log", TRUE, Len(r.rows))),
                                                  lat, res.logs, res.archives)

\* Lines 238-258: the polling branch.
PollBranch ==
    /\ pc = "branch"
    /\ ~StopSeen
    /\ ~PausedSeen
    /\ PollWanted
    /\ \/ /\ PollFailed(Append(trace, Ev("provider", FALSE, 0)),
                        latestFile, logs, archives)
          /\ UNCHANGED <<statusFile, published, fetched>>
       \/ \E frame \in ProviderFrames : PollWith(frame) /\ fetched' = frame
    /\ Watch(IF FlagSet(ctlFile) THEN Watched(watch.reads, Min(2, watch.calls + 1))
             ELSE Watched(0, 0))
    /\ UNCHANGED <<ctlFile, cfgFile>>
    /\ UNCHANGED <<loop_once, cfg, start_ts, now, ctrl, trading_flag, iter>>
    /\ UNCHANGED <<callVars, raceVars, lastCall, recorded, cfgArg>>

\* Lines 259-279: the heartbeat branch.  The latest write is inside a
\* try/except pass, the status write is not.
IdleBranch ==
    /\ pc = "branch"
    /\ ~StopSeen
    /\ ~PausedSeen
    /\ ~PollWanted
    /\ \E okL \in BOOLEAN, ok \in BOOLEAN :
        /\ latestFile' = AtomicWrite(latestFile, Heartbeat(now), okL)
        /\ PublishOrCrash(IdleStatus, ok, "tail")
        /\ trace' = trace \o <<Ev("latest", okL, 0), Ev("status", ok, 0)>>
    /\ UNCHANGED <<ctlFile, cfgFile, logs, archives>>
    /\ UNCHANGED <<loop_once, cfg, error_count, start_ts, now, ctrl, trading_flag, iter>>
    /\ UNCHANGED auxVars

\* Line 258: time.sleep(5) after a failed poll.
BackoffSleep ==
    /\ pc = "backoff"
    /\ trace' = Append(trace, Ev("sleep", TRUE, 5))
    /\ pc' = "tail"
    /\ UNCHANGED fileVars
    /\ UNCHANGED <<loop_once, cfg, error_count, start_ts, now, ctrl, trading_flag,
                   iter, published>>
    /\ UNCHANGED auxVars

\* The end of an iteration without the test of loop_once.
LoopTailNoBreak ==
    /\ pc = "tail"
    /\ \E elapsed \in ElapsedSamples, ok \in BOOLEAN :
          LET cur == DictSet(ReadStatusOrEmpty(statusFile), "progress_pct",
                             ProgressPct(elapsed, PollInterval(cfg)))
          IN  /\ PublishOrCrash(cur, ok, "interval_sleep")
              /\ trace' = Append(trace, Ev("status", ok, 0))
    /\ UNCHANGED <<ctlFile, cfgFile, latestFile, logs, archives>>
    /\ UNCHANGED <<loop_once, cfg, error_count, start_ts, now, ctrl, trading_flag, iter>>
    /\ UNCHANGED auxVars

\* Lines 281-293: break in single-iteration mode, else the progress update.
LoopTail ==
    /\ pc = "tail"
    /\ IF loop_once
       THEN /\ pc' = "done"
            /\ UNCHANGED <<statusFile, published, trace>>
       ELSE \E elapsed \in ElapsedSamples, ok \in BOOLEAN :
              LET cur == DictSet(ReadStatusOrEmpty(statusFile), "progress_pct",
                                 ProgressPct(elapsed, PollInterval(cfg)))
              IN  /\ PublishOrCrash(cur, ok, "interval_sleep")
                  /\ trace' = Append(trace, Ev("status", ok, 0))
    /\ UNCHANGED <<ctlFile, cfgFile, latestFile, logs, archives>>
    /\ UNCHANGED <<loop_once, cfg, error_count, start_ts, now, ctrl, trading_flag, iter>>
    /\ UNCHANGED auxVars

\* Line 294: time.sleep(poll_interval).
IntervalSleep ==
    /\ pc = "interval_sleep"
    /\ trace' = Append(trace, Ev("sleep", TRUE, PollInterval(cfg)))
    /\ pc' = "top"
    /\ UNCHANGED fileVars
    /\ UNCHANGED <<loop_once, cfg, error_count, start_ts, now, ctrl, trading_flag,
                   iter, published>>
    /\ UNCHANGED auxVars

\* An external process (the dashboard) calls set_service_control.
ExtSetControl ==
    /\ \E p \in OptBools, s \in OptBools : ctlFile' = SetServiceControl(ctlFile, p, s)
    /\ Watch(IF FlagSet(ctlFile) /\ FlagSet(ctlFile') THEN watch ELSE Watched(0, 0))
    /\ UNCHANGED <<cfgFile, statusFile, latestFile, logs, archives>>
    /\ UNCHANGED loopVars
    /\ UNCHANGED <<callVars, raceVars, fetched, lastCall, recorded, cfgArg>>

vars == <<fileVars, loopVars, auxVars>>

Next ==
    \/ Start
    \/ ReadControlStep
    \/ StopBranch
    \/ PausedBranch
    \/ PauseSleep
    \/ PollBranch
    \/ IdleBranch
    \/ BackoffSleep
    \/ LoopTail
    \/ IntervalSleep
    \/ ExtSetControl

Spec == Init /\ [][Next]_vars

\* run_service goes on whenever it can: every provider call, file
\* operation and sleep returns (or raises) after a finite time.  The
\* external callers of set_service_control are under no such obligation.
LoopStep ==
    \/ Start
    \/ ReadControlStep
    \/ StopBranch
    \/ PausedBranch
    \/ PauseSleep
    \/ PollBranch
    \/ IdleBranch
    \/ BackoffSleep
    \/ LoopTail
    \/ IntervalSleep

SpecLive == Init /\ [][Next]_vars /\ WF_vars(LoopStep)

\* run_service in single-iteration mode on every input; its plain mode
\* on an empty data directory.
InitOnce == Init /\ (loop_once \/ (cfgFile = AbsentFile /\ ctlFile = AbsentFile))

SpecOnce == InitOnce /\ [][Next]_vars /\ WF_vars(LoopStep)

\* run_service in its plain mode with an instrument tracked, and the
\* writes of the external callers watched.
InitLatency ==
    /\ InitFiles /\ InitLoop /\ InitCall /\ InitRace
    /\ ~loop_once
    /\ cfgFile.st = "ok"
    /\ ctlFile = AbsentFile
    /\ fetched = NoFrame
    /\ lastCall = NoCall
    /\ recorded = NoFiles
    /\ cfgArg = EmptyDict
    /\ watch = Watched(0, 0)

SpecLatency == InitLatency /\ [][Next]_vars

(***************************************************************************)
(* The trading-time predicate on every weekday, hour and minute            *)
(***************************************************************************)
AllTimes ==
    {[date |-> d, hour |-> h, minute |-> m] : d \in 0..6, h \in 0..23, m \in 0..59}

\* The files and the loop's variables when run_service is not what is
\* being explored.
QuietFiles ==
    /\ cfgFile = AbsentFile
    /\ statusFile = AbsentFile
    /\ latestFile = AbsentFile
    /\ logs = NoFiles
    /\ archives = NoFiles

QuietLoop ==
    /\ loop_once = FALSE
    /\ cfg = DEFAULT_SERVICE_CONFIG
    /\ error_count = 0
    /\ start_ts = NoneTime
    /\ iter = 0
    /\ trace = <<>>
    /\ published = EmptyDict

InitTime ==
    /\ QuietFiles /\ QuietLoop /\ InitCall /\ InitRace /\ InitObs
    /\ ctlFile = AbsentFile
    /\ ctrl = DefaultControl
    /\ pc = "time_in"
    /\ now \in AllTimes
    /\ trading_flag = FALSE

\* trading_flag = is_trading_time_now(now)
EvalTrading ==
    /\ pc = "time_in"
    /\ trading_flag' = is_trading_time_now(now)
    /\ pc' = "time_out"
    /\ UNCHANGED fileVars
    /\ UNCHANGED <<loop_once, cfg, error_count, start_ts, now, ctrl, iter, trace,
                   published>>
    /\ UNCHANGED auxVars

NextTime == EvalTrading

SpecTime == InitTime /\ [][NextTime]_vars

(***************************************************************************)
(* The control channel used by one caller at a time                        *)
(***************************************************************************)
InitCtl ==
    /\ QuietFiles /\ QuietLoop /\ InitCall /\ InitRace /\ InitObs
    /\ ctlFile \in ControlFiles
    /\ ctrl = DefaultControl
    /\ pc = "ctl_idle"
    /\ now = NoneTime
    /\ trading_flag = FALSE

\* set_service_control(paused, stop)
CtlSet ==
    /\ pc \in {"ctl_idle", "ctl_set", "ctl_read", "ctl_read_after_set"}
    /\ \E p \in OptBools, s \in OptBools :
        /\ callArgs' = <<p, s>>
        /\ ctlFile' = SetServiceControl(ctlFile, p, s)
    /\ callPrev' = ctlFile
    /\ pc' = "ctl_set"
    /\ UNCHANGED <<cfgFile, statusFile, latestFile, logs, archives>>
    /\ UNCHANGED <<loop_once, cfg, error_count, start_ts, now, ctrl, trading_flag,
                   iter, trace, published>>
    /\ UNCHANGED <<raceVars, obsVars>>

\* ctrl = _read_control()
CtlGet ==
    /\ pc \in {"ctl_idle", "ctl_set"}
    /\ ctrl' = ReadControl(ctlFile)
    /\ pc' = IF pc = "ctl_set" THEN "ctl_read_after_set" ELSE "ctl_read"
    /\ UNCHANGED fileVars
    /\ UNCHANGED <<loop_once, cfg, error_count, start_ts, now, trading_flag,
                   iter, trace, published>>
    /\ UNCHANGED auxVars

NextCtl == CtlSet \/ CtlGet

SpecCtl == InitCtl /\ [][NextCtl]_vars

(***************************************************************************)
(* Several processes, each making one call of set_service_control, and a   *)
(* reader of the control state.                                            *)
(* Every writer uses the same temporary path control.tmp.  A file here     *)
(* also carries the length of its text: a write through a descriptor whose *)
(* file was not truncated since it was opened overwrites from offset 0 and *)
(* leaves what lies beyond.                                                *)
(***************************************************************************)
\* len(json.dumps(clean, ensure_ascii=False, indent=2))
BoolTextLen(v) == IF v = PyTrue THEN 4 ELSE 5
ControlTextLen(c) == 28 + BoolTextLen(c["paused"]) + BoolTextLen(c["stop"])

SizedAbsent == [st |-> "absent", obj |-> EmptyDict, len |-> 0]
SizedEmpty == [st |-> "corrupt", obj |-> EmptyDict, len |-> 0]
SizedOk(c) == [st |-> "ok", obj |-> c, len |-> ControlTextLen(c)]

\* The file after text c is written at offset 0.
WriteOver(f, c) ==
    IF ControlTextLen(c) >= f.len THEN SizedOk(c)
    ELSE [st |-> "corrupt", obj |-> EmptyDict, len |-> f.len]

RaceInitFiles == {SizedAbsent, SizedOk([paused |-> PyTrue, stop |-> PyFalse])}

InitRaceSpec ==
    /\ QuietFiles /\ QuietLoop /\ InitCall /\ InitObs
    /\ ctlFile \in RaceInitFiles
    /\ ctlInit = ctlFile
    /\ tmpFile = SizedAbsent
    /\ fdAt = [w \in Writers |-> "none"]
    /\ wpc = [w \in Writers |-> "idle"]
    /\ wctrl = [w \in Writers |-> DefaultControl]
    /\ written = {}
    /\ fellBack = FALSE
    /\ ctrl = DefaultControl
    /\ pc = "race"
    /\ now = NoneTime
    /\ trading_flag = FALSE

\* What no step of the writers or of the reader touches.
RaceFrame ==
    /\ UNCHANGED <<loop_once, cfg, error_count, start_ts, now, trading_flag, iter,
                   trace, published>>
    /\ UNCHANGED <<cfgFile, statusFile, latestFile, logs, archives, callVars, obsVars>>

\* Lines 316-320: ctrl = _read_control() and the merge of the arguments.
WRead(w) ==
    /\ wpc[w] = "idle"
    /\ \E p \in OptBools, s \in OptBools :
        wctrl' = [wctrl EXCEPT ![w] = MergeControl(ReadControl(ctlFile), p, s)]
    /\ wpc' = [wpc EXCEPT ![w] = "merged"]
    /\ UNCHANGED <<ctlFile, tmpFile, fdAt, written, ctlInit, fellBack, ctrl, pc>>
    /\ RaceFrame

\* Line 67, first half: write_text opens control.tmp for writing, which
\* creates it or truncates whatever is there.
WOpen(w) ==
    /\ wpc[w] = "merged"
    /\ tmpFile' = SizedEmpty
    /\ fdAt' = [fdAt EXCEPT ![w] = "tmp"]
    /\ wpc' = [wpc EXCEPT ![w] = "opened"]
    /\ UNCHANGED <<ctlFile, wctrl, written, ctlInit, fellBack, ctrl, pc>>
    /\ RaceFrame

\* Line 67, second half: the text is written and the file closed.  The
\* descriptor follows its file: a rename by another writer has moved it to
\* control.json, a second rename has unlinked it.
WWrite(w) ==
    /\ wpc[w] = "opened"
    /\ LET c == CleanControl(wctrl[w])
       IN  /\ written' = written \cup {c}
           /\ tmpFile' = IF fdAt[w] = "tmp" THEN WriteOver(tmpFile, c) ELSE tmpFile
           /\ ctlFile' = IF fdAt[w] = "ctl" THEN WriteOver(ctlFile, c) ELSE ctlFile
    /\ fdAt' = [fdAt EXCEPT ![w] = "none"]
    /\ wpc' = [wpc EXCEPT ![w] = "closed"]
    /\ UNCHANGED <<wctrl, ctlInit, fellBack, ctrl, pc>>
    /\ RaceFrame

\* Line 68: tmp.replace(CONTROL_PATH); FileNotFoundError when another
\* writer has already renamed control.tmp away.
WRename(w) ==
    /\ wpc[w] = "closed"
    /\ IF tmpFile.st = "absent"
       THEN /\ wpc' = [wpc EXCEPT ![w] = "raised"]
            /\ UNCHANGED <<ctlFile, tmpFile, fdAt>>
       ELSE /\ ctlFile' = tmpFile
            /\ tmpFile' = SizedAbsent
            /\ fdAt' = [x \in Writers |->
                          IF fdAt[x] = "tmp" THEN "ctl"
                          ELSE IF fdAt[x] = "ctl" THEN "gone" ELSE fdAt[x]]
            /\ wpc' = [wpc EXCEPT ![w] = "returned"]
    /\ UNCHANGED <<wctrl, written, ctlInit, fellBack, ctrl, pc>>
    /\ RaceFrame

\* The loop's _read_control() while the writers run.
RaceRead ==
    /\ ctrl' = ReadControl(ctlFile)
    /\ fellBack' = (ctlFile.st = "corrupt")
    /\ pc' = "race_read"
    /\ UNCHANGED <<ctlFile, tmpFile, fdAt, wpc, wctrl, written, ctlInit>>
    /\ RaceFrame

NextRace ==
    \/ \E w \in Writers : WRead(w)
    \/ \E w \in Writers : WOpen(w)
    \/ \E w \in Writers : WWrite(w)
    \/ \E w \in Writers : WRename(w)
    \/ RaceRead

SpecRace == InitRaceSpec /\ [][NextRace]_vars

(***************************************************************************)
(* The log manager called on its own: _append_log on a log directory that  *)
(* earlier days have left behind.                                          *)
(***************************************************************************)
\* The day of the first call, and the retention periods tried.
LogToday == 10
LogRetentions == {1, 7}

\* The rows a day's polls recorded, and the rows call number n appends.
LogRow(d, n) ==
    TrackedRow(Frame(TRUE, TRUE, TRUE, <<>>), SpotRow("A", 4, FALSE), 3,
               [date |-> d, hour |-> 10, minute |-> n])
DayRows(d) == <<LogRow(d, 0)>>
PastLog(d) == [headers |-> 1, rows |-> DayRows(d)]

\* What an earlier day can have left: nothing; its log; its archive (log
\* compressed and deleted); both (the unlink failed); its log and a
\* truncated archive (the compression failed midway).
DayStates == {"none", "log", "archive", "both", "log_partial"}
LogsLeft(st) ==
    [d \in {x \in DOMAIN st : st[x] \in {"log", "both", "log_partial"}} |-> PastLog(d)]
ArchivesLeft(st) ==
    [d \in {x \in DOMAIN st : st[x] \in {"archive", "both", "log_partial"}} |->
        IF st[d] = "log_partial" THEN PartialArchive ELSE ArchiveOf(PastLog(d))]
RecordedLeft(st) ==
    [d \in {x \in DOMAIN st : st[x] # "none"} |-> DayRows(d)]

\* The directories tried: ten archived days before the first call, or any
\* mix of leftovers on three earlier days.
LogDirectories ==
    {[d \in (LogToday - 10)..(LogToday - 1) |-> "archive"]}
    \cup {st \in [{LogToday - 9, LogToday - 2, LogToday - 1} -> DayStates] :
            st[LogToday - 9] \in {"none", "log", "archive"}}

InitLog ==
    /\ InitCall /\ InitRace
    /\ ctlFile = AbsentFile
    /\ cfgFile = AbsentFile
    /\ statusFile = AbsentFile
    /\ latestFile = AbsentFile
    /\ \E st \in LogDirectories :
        /\ logs = LogsLeft(st)
        /\ archives = ArchivesLeft(st)
        /\ recorded = RecordedLeft(st)
    /\ \E r \in LogRetentions :
        cfg = [DEFAULT_SERVICE_CONFIG EXCEPT !.retention_days = r]
    /\ loop_once = FALSE
    /\ error_count = 0
    /\ start_ts = NoneTime
    /\ now = [date |-> LogToday, hour |-> 10, minute |-> 0]
    /\ ctrl = DefaultControl
    /\ trading_flag = TRUE
    /\ iter = 0
    /\ trace = <<>>
    /\ published = EmptyDict
    /\ fetched = NoFrame
    /\ lastCall = NoCall
    /\ cfgArg = EmptyDict
    /\ watch = NotWatching
    /\ pc = "log_idle"

\* _append_log(tracked_df, now, retention_days), on the day of the previous
\* call or on the day after.
AppendLogCall ==
    /\ pc \in {"log_idle", "log_returned", "log_raised"}
    /\ iter < MaxCalls
    /\ \E day \in {now.date, now.date + 1} :
        /\ day <= LogToday + 1
        /\ \E res \in AppendLogResults(logs, archives, <<LogRow(day, iter + 1)>>, day,
                                        cfg.retention_days, TRUE) :
            /\ logs' = res.logs
            /\ archives' = res.archives
            /\ now' = [date |-> day, hour |-> 10, minute |-> 0]
            /\ lastCall' = [day |-> day, rows |-> <<LogRow(day, iter + 1)>>,
                            retention_days |-> cfg.retention_days, what |-> res.what]
            /\ recorded' = IF res.what.refused THEN recorded
                           ELSE FilePut(recorded, day,
                                        (IF day \in DOMAIN recorded THEN recorded[day]
                                         ELSE <<>>) \o <<LogRow(day, iter + 1)>>)
            /\ pc' = IF res.raised THEN "log_raised" ELSE "log_returned"
    /\ iter' = iter + 1
    /\ UNCHANGED <<ctlFile, cfgFile, statusFile, latestFile>>
    /\ UNCHANGED <<loop_once, cfg, error_count, start_ts, ctrl, trading_flag, trace,
                   published>>
    /\ UNCHANGED <<callVars, raceVars, fetched, cfgArg, watch>>

NextLog == AppendLogCall

SpecLog == InitLog /\ [][NextLog]_vars

(***************************************************************************)
(* The configuration file written by save_config and read by load_config.  *)
(***************************************************************************)
ConfigInputKeys == (DOMAIN DEFAULT_SERVICE_CONFIG) \cup {"bogus"}
ConfigInput(D, interval) ==
    [k \in D |->
        CASE k = "tracked_codes" -> {"A"}
          [] k = "poll_interval_sec" -> interval
          [] k = "alert_threshold_pct" -> 5
          [] k = "retention_days" -> 1
          [] OTHER -> 1]
\* The dictionaries handed to save_config.
ConfigInputs ==
    {ConfigInput(D, interval) : D \in SUBSET ConfigInputKeys, interval \in {10, 60}}

InitCfg ==
    /\ InitCall /\ InitRace
    /\ ctlFile = AbsentFile
    /\ cfgFile \in {AbsentFile, CorruptFile, OkFile(save_config(EmptyDict))}
    /\ statusFile = AbsentFile
    /\ latestFile = AbsentFile
    /\ logs = NoFiles
    /\ archives = NoFiles
    /\ QuietLoop
    /\ now = NoneTime
    /\ ctrl = DefaultControl
    /\ trading_flag = FALSE
    /\ InitObs
    /\ pc = "cfg_idle"

\* A save_config that merges the input over the persisted configuration,
\* the way set_service_control merges over control.json.
SaveConfigCallMerging ==
    /\ pc \in {"cfg_idle", "cfg_saved", "cfg_save_raised", "cfg_loaded"}
    /\ iter < MaxCalls
    /\ \E c \in ConfigInputs, o \in ConfigWriteOutcomes :
        /\ cfgFile' = ConfigWrite(cfgFile,
                        [k \in DOMAIN DEFAULT_SERVICE_CONFIG |->
                            IF k \in DOMAIN c THEN c[k] ELSE load_config(cfgFile)[k]], o)
        /\ cfgArg' = c
        /\ pc' = IF o = "written" THEN "cfg_saved" ELSE "cfg_save_raised"
    /\ iter' = iter + 1
    /\ UNCHANGED <<ctlFile, statusFile, latestFile, logs, archives>>
    /\ UNCHANGED <<loop_once, cfg, error_count, start_ts, now, ctrl, trading_flag,
                   trace, published>>
    /\ UNCHANGED <<callVars, raceVars, fetched, lastCall, recorded, watch>>

\* save_config(cfg_in)
SaveConfigCall ==
    /\ pc \in {"cfg_idle", "cfg_saved", "cfg_save_raised", "cfg_loaded"}
    /\ iter < MaxCalls
    /\ \E c \in ConfigInputs, o \in ConfigWriteOutcomes :
        /\ cfgFile' = ConfigWrite(cfgFile, save_config(c), o)
        /\ cfgArg' = c
        /\ pc' = IF o = "written" THEN "cfg_saved" ELSE "cfg_save_raised"
    /\ iter' = iter + 1
    /\ UNCHANGED <<ctlFile, statusFile, latestFile, logs, archives>>
    /\ UNCHANGED <<loop_once, cfg, error_count, start_ts, now, ctrl, trading_flag,
                   trace, published>>
    /\ UNCHANGED <<callVars, raceVars, fetched, lastCall, recorded, watch>>

\* cfg = load_config()
LoadConfigCall ==
    /\ pc \in {"cfg_idle", "cfg_saved", "cfg_save_raised"}
    /\ cfg' = load_config(cfgFile)
    /\ pc' = "cfg_loaded"
    /\ UNCHANGED fileVars
    /\ UNCHANGED <<loop_once, error_count, start_ts, now, ctrl, trading_flag, iter,
                   trace, published>>
    /\ UNCHANGED auxVars

NextCfg == SaveConfigCall \/ LoadConfigCall

SpecCfg == InitCfg /\ [][NextCfg]_vars

(***************************************************************************)
(* Processes calling save_config while another calls load_config.          *)
(* CONFIG_PATH.write_text opens realtime_config.json for writing, which    *)
(* truncates it, and then writes the text and closes.                      *)
(***************************************************************************)
\* The configurations persisted before, and those the writers save.
RacePersisted == {save_config(ConfigInput({"tracked_codes"}, 60)), save_config(EmptyDict)}
RaceConfigInputs ==
    {ConfigInput({"tracked_codes", "poll_interval_sec"}, 60),
     ConfigInput({"poll_interval_sec", "bogus"}, 10)}

InitCfgRace ==
    /\ InitCall /\ InitObs
    /\ cfgFile \in {OkFile(c) : c \in RacePersisted}
    /\ ctlInit = cfgFile
    /\ ctlFile = AbsentFile
    /\ statusFile = AbsentFile
    /\ latestFile = AbsentFile
    /\ logs = NoFiles
    /\ archives = NoFiles
    /\ QuietLoop
    /\ now = NoneTime
    /\ ctrl = DefaultControl
    /\ trading_flag = FALSE
    /\ tmpFile = AbsentFile
    /\ fdAt = [w \in Writers |-> "none"]
    /\ wpc = [w \in Writers |-> "idle"]
    /\ wctrl = [w \in Writers |-> EmptyDict]
    /\ written = {}
    /\ fellBack = FALSE
    /\ pc = "cfg_race"

\* What no step of the savers or of the loader touches.
CfgRaceFrame ==
    /\ UNCHANGED <<loop_once, error_count, start_ts, now, ctrl, trading_flag, iter,
                   trace, published>>
    /\ UNCHANGED <<ctlFile, statusFile, latestFile, logs, archives, callVars, obsVars>>
    /\ UNCHANGED <<tmpFile, ctlInit>>

\* Lines 50-52, up to the open: clean is built and write_text opens the
\* configuration file in mode "w"; the file is empty from here on.
WSaveOpen(w) ==
    /\ wpc[w] = "idle"
    /\ \E c \in RaceConfigInputs : wctrl' = [wctrl EXCEPT ![w] = save_config(c)]
    /\ cfgFile' = CorruptFile
    /\ fdAt' = [fdAt EXCEPT ![w] = "cfg"]
    /\ wpc' = [wpc EXCEPT ![w] = "opened"]
    /\ UNCHANGED <<written, fellBack, cfg, pc>>
    /\ CfgRaceFrame

\* Line 52, the rest: the text is written from offset 0 and the file
\* closed.  Over a text another saver has written in the meantime the
\* result is this text, or this text followed by the tail of the longer one.
WSaveWrite(w) ==
    /\ wpc[w] = "opened"
    /\ cfgFile' \in (IF cfgFile.st = "ok" THEN {OkFile(wctrl[w]), CorruptFile}
                      ELSE {OkFile(wctrl[w])})
    /\ written' = written \cup {wctrl[w]}
    /\ fdAt' = [fdAt EXCEPT ![w] = "none"]
    /\ wpc' = [wpc EXCEPT ![w] = "returned"]
    /\ UNCHANGED <<wctrl, fellBack, cfg, pc>>
    /\ CfgRaceFrame

\* cfg = load_config() in a process of its own.
CfgRaceLoad ==
    /\ cfg' = load_config(cfgFile)
    /\ fellBack' = (cfgFile.st # "ok")
    /\ pc' = "cfg_race_loaded"
    /\ UNCHANGED <<cfgFile, fdAt, wpc, wctrl, written>>
    /\ CfgRaceFrame

NextCfgRace ==
    \/ \E w \in Writers : WSaveOpen(w)
    \/ \E w \in Writers : WSaveWrite(w)
    \/ CfgRaceLoad

SpecCfgRace == InitCfgRace /\ [][NextCfgRace]_vars

(***************************************************************************)
(* The poll interval, from the stored configuration to the sleep.          *)
(***************************************************************************)
\* The integers tried as poll_interval_sec.
IntervalSamples == (-3)..63

InitSleep ==
    /\ InitCall /\ InitRace /\ InitObs
    /\ cfgFile \in {AbsentFile, OkFile(save_config(EmptyDict)),
                     OkFile([tracked_codes |-> {"A"}])}
                    \cup {OkFile(save_config([poll_interval_sec |-> n])) : n \in IntervalSamples}
    /\ ctlFile = AbsentFile
    /\ statusFile = AbsentFile
    /\ latestFile = AbsentFile
    /\ logs = NoFiles
    /\ archives = NoFiles
    /\ QuietLoop
    /\ now = NoneTime
    /\ ctrl = DefaultControl
    /\ trading_flag = FALSE
    /\ pc = "sleep_init"

\* Lines 178-179: cfg = load_config(); poll_interval is computed from it.
SleepLoad ==
    /\ pc = "sleep_init"
    /\ cfg' = load_config(cfgFile)
    /\ pc' = "sleep_loaded"
    /\ UNCHANGED fileVars
    /\ UNCHANGED <<loop_once, error_count, start_ts, now, ctrl, trading_flag, iter,
                   trace, published>>
    /\ UNCHANGED auxVars

\* Line 294: time.sleep(poll_interval).
SleepInterval ==
    /\ pc = "sleep_loaded"
    /\ trace' = <<Ev("sleep", TRUE, PollInterval(cfg))>>
    /\ pc' = "slept"
    /\ UNCHANGED fileVars
    /\ UNCHANGED <<loop_once, cfg, error_count, start_ts, now, ctrl, trading_flag,
                   iter, published>>
    /\ UNCHANGED auxVars

NextSleep == SleepLoad \/ SleepInterval

SpecSleep == InitSleep /\ [][NextSleep]_vars

(***************************************************************************)
(* The three atomic writers called on their own, each on its own target    *)
(* and temporary path, with every way a call can fail.                     *)
(***************************************************************************)
StorePaths == {"control", "status", "latest"}
StoreTime == [date |-> 3, hour |-> 10, minute |-> 0]

\* The objects handed to the writers.
StoreControls == {[paused |-> PyTrue], [paused |-> "0", stop |-> "1"]}
StoreStatuses == {InitStatus(StoreTime), [InitStatus(StoreTime) EXCEPT !.running = FALSE]}
StoreTables == {Heartbeat(StoreTime),
                Snapshot(StoreTime,
                         <<TrackedRow(Frame(TRUE, TRUE, TRUE, <<>>),
                                      SpotRow("A", 4, FALSE), 3, StoreTime)>>)}

InitStore ==
    /\ InitCall /\ InitObs
    /\ ctlFile \in {AbsentFile, OkFile(DefaultControl)}
    /\ statusFile \in {AbsentFile, OkFile(InitStatus(StoreTime))}
    /\ latestFile \in {AbsentFile, OkFile(Heartbeat(StoreTime))}
    /\ cfgFile = AbsentFile
    /\ logs = NoFiles
    /\ archives = NoFiles
    /\ QuietLoop
    /\ now = StoreTime
    /\ ctrl = DefaultControl
    /\ trading_flag = FALSE
    /\ tmpFile = [p \in StorePaths |-> AbsentFile]
    /\ fdAt = [w \in Writers |-> "none"]
    /\ wpc = [w \in Writers |-> "idle"]
    /\ wctrl = [w \in Writers |-> DefaultControl]
    /\ written = {}
    /\ ctlInit = AbsentFile
    /\ fellBack = FALSE
    /\ pc = "store_idle"

\* What a call of a writer on `path` leaves besides the files: the object
\* it was handed, the outcome, and whether it returned or raised.
StoreCalled(path, obj, outcome, res) ==
    /\ tmpFile' = [tmpFile EXCEPT ![path] = res.tmp]
    /\ published' = obj
    /\ trace' = <<Ev(path, outcome = "written", 0)>>
    /\ pc' = IF res.raised THEN "store_raised" ELSE "store_returned"
    /\ iter' = iter + 1
    /\ UNCHANGED <<cfgFile, logs, archives>>
    /\ UNCHANGED <<loop_once, cfg, error_count, start_ts, now, ctrl, trading_flag>>
    /\ UNCHANGED <<callVars, obsVars>>
    /\ UNCHANGED <<fdAt, wpc, wctrl, written, ctlInit, fellBack>>

\* _atomic_write_json(obj, STATUS_PATH)
StoreWriteJson ==
    /\ iter < MaxCalls
    /\ \E obj \in StoreStatuses, o \in AtomicWriteOutcomes :
        LET res == AtomicWriteSteps(statusFile, tmpFile["status"], obj, o)
        IN  /\ statusFile' = res.target
            /\ StoreCalled("status", obj, o, res)
    /\ UNCHANGED <<ctlFile, latestFile>>

\* _atomic_write_csv(df, LATEST_PATH)
StoreWriteCsv ==
    /\ iter < MaxCalls
    /\ \E df \in StoreTables, o \in AtomicWriteOutcomes :
        LET res == AtomicWriteSteps(latestFile, tmpFile["latest"], df, o)
        IN  /\ latestFile' = res.target
            /\ StoreCalled("latest", df, o, res)
    /\ UNCHANGED <<ctlFile, statusFile>>

\* _write_control(ctrl)
StoreWriteControl ==
    /\ iter < MaxCalls
    /\ \E c \in StoreControls, o \in AtomicWriteOutcomes :
        LET res == AtomicWriteSteps(ctlFile, tmpFile["control"], CleanControl(c), o)
        IN  /\ ctlFile' = res.target
            /\ StoreCalled("control", CleanControl(c), o, res)
    /\ UNCHANGED <<statusFile, latestFile>>

NextStore == StoreWriteJson \/ StoreWriteCsv \/ StoreWriteControl

SpecStore == InitStore /\ [][NextStore]_vars

(***************************************************************************)
(* run_service while the dashboard saves the configuration.                *)
(***************************************************************************)
\* The dictionaries the dashboard saves while the service runs.
EditInputs == {ConfigInput(DOMAIN DEFAULT_SERVICE_CONFIG, 60)}

\* run_service in its plain mode, started with no control file or with a
\* stop request left in it.
InitCfgEdit ==
    /\ Init
    /\ ~loop_once
    /\ ctlFile \in {AbsentFile, OkFile([k \in {"stop"} |-> "1"])}

\* An external process (the dashboard) calls save_config after run_service
\* has loaded the configuration; what was saved before that is the
\* configuration file run_service starts with.
ExtSaveConfig ==
    /\ pc # "init"
    /\ \E c \in EditInputs, o \in ConfigWriteOutcomes :
        cfgFile' = ConfigWrite(cfgFile, save_config(c), o)
    /\ UNCHANGED <<ctlFile, statusFile, latestFile, logs, archives>>
    /\ UNCHANGED loopVars
    /\ UNCHANGED auxVars

\* The dashboard's pause and continue buttons:
\* set_service_control(paused=True, stop=False) and
\* set_service_control(paused=False, stop=False).
ExtPauseResume ==
    /\ \E p \in {PyTrue, PyFalse} : ctlFile' = SetServiceControl(ctlFile, p, PyFalse)
    /\ UNCHANGED <<cfgFile, statusFile, latestFile, logs, archives>>
    /\ UNCHANGED loopVars
    /\ UNCHANGED auxVars

NextCfgEdit == LoopStep \/ ExtSaveConfig \/ ExtPauseResume

SpecCfgEdit == InitCfgEdit /\ [][NextCfgEdit]_vars

(***************************************************************************)
(* The progress update, from the configuration, the status file and the    *)
(* clock to the status written.                                            *)
(***************************************************************************)
\* Seconds between the iteration's timestamp and the progress update's
\* datetime.now(); negative when the wall clock was set back in between.
ProgressElapsed == (-5)..305

\* The status a branch has left in the file before the progress update.
ProgressStatuses ==
    {InitStatus(StoreTime),
     StatusObj(TRUE, StoreTime, StoreTime, 1, TRUE, PyFalse, FALSE),
     StatusObj(TRUE, StoreTime, NoneTime, 0, FALSE, PyTrue, FALSE)}

InitProgress ==
    /\ InitCall /\ InitRace /\ InitObs
    /\ cfgFile \in {AbsentFile} \cup
                    {OkFile(save_config([poll_interval_sec |-> n])) : n \in {10, 60}}
    /\ ctlFile = AbsentFile
    /\ statusFile \in {OkFile(st) : st \in ProgressStatuses}
    /\ latestFile = AbsentFile
    /\ logs = NoFiles
    /\ archives = NoFiles
    /\ QuietLoop
    /\ now = StoreTime
    /\ ctrl = DefaultControl
    /\ trading_flag = FALSE
    /\ pc = "sleep_init"

\* Lines 284-293: elapsed, pct, the status file read back, the write.
ProgressUpdate ==
    /\ pc = "sleep_loaded"
    /\ \E elapsed \in ProgressElapsed, ok \in BOOLEAN :
          LET cur == DictSet(ReadStatusOrEmpty(statusFile), "progress_pct",
                             ProgressPct(elapsed, PollInterval(cfg)))
          IN  /\ PublishOrCrash(cur, ok, "interval_sleep")
              /\ trace' = <<Ev("status", ok, elapsed)>>
    /\ UNCHANGED <<ctlFile, cfgFile, latestFile, logs, archives>>
    /\ UNCHANGED <<loop_once, cfg, error_count, start_ts, now, ctrl, trading_flag, iter>>
    /\ UNCHANGED auxVars

NextProgress == SleepLoad \/ ProgressUpdate

SpecProgress == InitProgress /\ [][NextProgress]_vars

(***************************************************************************)
(* run_service on a data directory that is not its own alone: another      *)
(* run_service writes, or has written, its status there (the dashboard's   *)
(* start button launches a service without looking for a running one; of   *)
(* the other instance only the status writes are followed), and the status *)
(* file can be removed.                                                    *)
(***************************************************************************)
\* The other instance started on the Wednesday; its initial status and the
\* final status of its stop branch.
OtherStart == [date |-> 2, hour |-> 10, minute |-> 0]
OtherStatus(running) ==
    [StatusObj(running, OtherStart, NoneTime, 0, TRUE, PyFalse, ~running)
        EXCEPT !.pid = "other_pid"]

InitShared ==
    /\ ctlFile \in {AbsentFile, OkFile([k \in {"stop"} |-> "1"])}
    /\ cfgFile \in LoopConfigFiles
    /\ statusFile \in {AbsentFile, OkFile(OtherStatus(FALSE))}
    /\ latestFile = AbsentFile
    /\ logs = NoFiles
    /\ archives = NoFiles
    /\ InitLoop /\ InitCall /\ InitRace /\ InitObs
    /\ ~loop_once

\* Lines 191-201 and 208-218 in the other process.
OtherPublishes ==
    /\ \E running \in BOOLEAN : statusFile' = OkFile(OtherStatus(running))
    /\ UNCHANGED <<ctlFile, cfgFile, latestFile, logs, archives>>
    /\ UNCHANGED loopVars
    /\ UNCHANGED auxVars

\* service_status.json is removed from the directory (the cache is cleared
\* while the service runs): the missing status file of the read at line 287.
StatusLost ==
    /\ statusFile.st = "ok"
    /\ statusFile' = AbsentFile
    /\ UNCHANGED <<ctlFile, cfgFile, latestFile, logs, archives>>
    /\ UNCHANGED loopVars
    /\ UNCHANGED auxVars

NextShared == LoopStep \/ ExtPauseResume \/ OtherPublishes \/ StatusLost

SpecShared == InitShared /\ [][NextShared]_vars

(***************************************************************************)
(* Callers of set_service_control at the same time, each setting one       *)
(* field: the odd-numbered ones call set_service_control(stop=True), the   *)
(* even-numbered ones set_service_control(paused=True).                    *)
(***************************************************************************)
FieldArgs(w) == IF w % 2 = 1 THEN <<"none", PyTrue>> ELSE <<PyTrue, "none">>

FieldInitFiles ==
    {SizedAbsent,
     SizedOk([paused |-> PyFalse, stop |-> PyFalse]),
     SizedOk([paused |-> PyTrue, stop |-> PyFalse])}

InitFields ==
    /\ QuietFiles /\ QuietLoop /\ InitCall /\ InitObs
    /\ ctlFile \in FieldInitFiles
    /\ ctlInit = ctlFile
    /\ tmpFile = SizedAbsent
    /\ fdAt = [w \in Writers |-> "none"]
    /\ wpc = [w \in Writers |-> "idle"]
    /\ wctrl = [w \in Writers |-> DefaultControl]
    /\ written = {}
    /\ fellBack = FALSE
    /\ ctrl = DefaultControl
    /\ pc = "race"
    /\ now = NoneTime
    /\ trading_flag = FALSE

\* Lines 316-320 with the caller's arguments.
WReadField(w) ==
    /\ wpc[w] = "idle"
    /\ wctrl' = [wctrl EXCEPT ![w] = MergeControl(ReadControl(ctlFile),
                                                  FieldArgs(w)[1], FieldArgs(w)[2])]
    /\ wpc' = [wpc EXCEPT ![w] = "merged"]
    /\ UNCHANGED <<ctlFile, tmpFile, fdAt, written, ctlInit, fellBack, ctrl, pc>>
    /\ RaceFrame

NextFields ==
    \/ \E w \in Writers : WReadField(w)
    \/ \E w \in Writers : WOpen(w)
    \/ \E w \in Writers : WWrite(w)
    \/ \E w \in Writers : WRename(w)
    \/ RaceRead

SpecFields == InitFields /\ [][NextFields]_vars

(***************************************************************************)
(* run_service stopped through the control file and started again on the   *)
(* same data directory, with nobody taking the stop request back.          *)
(***************************************************************************)
InitRestart ==
    /\ ctlFile \in {AbsentFile, OkFile([k \in {"stop"} |-> "1"]),
                     OkFile([paused |-> PyTrue, stop |-> PyFalse])}
    /\ cfgFile \in LoopConfigFiles
    /\ statusFile = AbsentFile
    /\ latestFile = AbsentFile
    /\ logs = NoFiles
    /\ archives = NoFiles
    /\ InitLoop /\ InitCall /\ InitRace /\ InitObs
    /\ ~loop_once

\* The dashboard's stop button: set_service_control(stop=True).
ExtStopButton ==
    /\ ctlFile' = SetServiceControl(ctlFile, "none", PyTrue)
    /\ UNCHANGED <<cfgFile, statusFile, latestFile, logs, archives>>
    /\ UNCHANGED loopVars
    /\ UNCHANGED auxVars

\* run_service has returned through the stop branch and the module is run
\* again (python -m alphahunter.realtime_service): a new process, the
\* locals of lines 178-190 fresh, the files as they were left.
Restart ==
    /\ pc = "done"
    /\ StopSeen
    /\ pc' = "init"
    /\ cfg' = DEFAULT_SERVICE_CONFIG
    /\ error_count' = 0
    /\ start_ts' = NoneTime
    /\ now' = NoneTime
    /\ ctrl' = DefaultControl
    /\ trading_flag' = FALSE
    /\ iter' = 0
    /\ trace' = <<>>
    /\ published' = EmptyDict
    /\ UNCHANGED loop_once
    /\ UNCHANGED fileVars
    /\ UNCHANGED auxVars

NextRestart == LoopStep \/ ExtStopButton \/ Restart

SpecRestart == InitRestart /\ [][NextRestart]_vars

(***************************************************************************)
(* Properties                                                              *)
(***************************************************************************)
\* What the iteration's control read showed, and which branch it selects.
SawStop == "stop" \in DOMAIN ctrl /\ ctrl["stop"] \in {"true", "1"}
SawPaused == "paused" \in DOMAIN ctrl /\ ctrl["paused"] \in {"true", "1"}
TrackedSet == cfg["tracked_codes"]
\* run_service leaves the branch point of the iteration in this step.
LeavesBranch == pc = "branch" /\ pc' # "branch"
ServiceFiles == <<statusFile, latestFile, logs, archives>>
HasOp(tr, op) == \E i \in DOMAIN tr : tr[i].op = op
HasFailure(tr) == \E i \in DOMAIN tr : ~tr[i].ok

\* C1: an iteration whose control read shows stop (whatever paused, the
\* trading predicate and the tracked set are) performs exactly one I/O
\* operation, a write of a status with running=false and stop_requested=true
\* (which is the status file's content unless the store refuses the write),
\* calls no provider, leaves the latest file and the logs alone and leaves
\* the loop; once run_service has ended it writes nothing more.
C1_StopPublishesFinalStatusAndExits ==
    [][ /\ (LeavesBranch /\ SawStop) =>
            /\ pc' \in {"done", "crashed"}
            /\ Len(trace') = 1
            /\ trace'[1].op = "status"
            /\ published'["running"] = FALSE
            /\ published'["stop_requested"] = TRUE
            /\ DOMAIN published' = StatusKeys
            /\ IF trace'[1].ok
               THEN statusFile' = [st |-> "ok", obj |-> published'] /\ pc' = "done"
               ELSE statusFile' = statusFile
            /\ UNCHANGED <<latestFile, logs, archives>>
        /\ pc \in {"done", "crashed"} => (pc' = pc /\ UNCHANGED ServiceFiles)
      ]_vars

\* Reached: the loop has stopped on a control state that also had paused
\* set, during trading hours with a tracked instrument, and the status file
\* says so.
C1_Witness ==
    /\ pc = "done"
    /\ SawStop /\ SawPaused /\ trading_flag /\ TrackedSet # {}
    /\ statusFile.st = "ok"
    /\ statusFile.obj["running"] = FALSE
    /\ statusFile.obj["stop_requested"] = TRUE

\* C2: an iteration whose control read shows paused and not stop publishes
\* a status with paused=true and running=true, calls no provider, leaves
\* the latest file and the logs alone, sleeps the 2 s pause (not the poll
\* interval) and then goes back to the control read at the top of the loop.
C2_PausedIterationThenRereads ==
    [][ /\ (LeavesBranch /\ ~SawStop /\ SawPaused) =>
            /\ pc' = "pause_sleep"
            /\ trace' = <<[op |-> "status", ok |-> TRUE, n |-> 0]>>
            /\ statusFile' = [st |-> "ok", obj |-> published']
            /\ published'["paused"] = "true"
            /\ published'["running"] = TRUE
            /\ UNCHANGED <<latestFile, logs, archives>>
        /\ pc = "pause_sleep" =>
            /\ pc' \in {"pause_sleep", "top"}
            /\ pc' = "top" => trace' = Append(trace, [op |-> "sleep", ok |-> TRUE, n |-> 2])
            /\ UNCHANGED ServiceFiles
      ]_vars

\* C3: a read of the control state from a missing or unparseable
\* control.json returns exactly {paused: false, stop: false}.
C3_ReadControlDefaults ==
    (pc \in {"ctl_read", "ctl_read_after_set"} /\ ctlFile.st \in {"absent", "corrupt"})
        => ctrl = [paused |-> "false", stop |-> "false"]

\* Reached: a read of a truncated control.json.
C3_Witness ==
    /\ pc = "ctl_read"
    /\ ctlFile.st = "corrupt"
    /\ ctrl = [paused |-> "false", stop |-> "false"]

\* The persisted value of field k before the last set call; false when the
\* file or the field was missing.
PersistedBefore(k) ==
    IF callPrev.st = "ok" /\ k \in DOMAIN callPrev.obj THEN callPrev.obj[k] ELSE "false"
GivenArg(k) == IF k = "paused" THEN callArgs[1] ELSE callArgs[2]

\* C4: the read that follows set_service_control(paused, stop) returns the
\* merged state: a given field has the given value, an omitted field the
\* value persisted before the call (false when none was; a non-boolean
\* leftover becomes its truth value), and control.json holds exactly that
\* object, two boolean fields paused and stop.
C4_SetThenGetIsMerge ==
    pc = "ctl_read_after_set" =>
        /\ DOMAIN ctrl = {"paused", "stop"}
        /\ \A k \in {"paused", "stop"} :
            /\ ctrl[k] \in {"true", "false"}
            /\ GivenArg(k) # "none" => ctrl[k] = GivenArg(k)
            /\ GivenArg(k) = "none" =>
                /\ PersistedBefore(k) \in {"true", "false"} => ctrl[k] = PersistedBefore(k)
                /\ ctrl[k] = "true" <=> PersistedBefore(k) \in {"true", "1"}
        /\ ctlFile = [st |-> "ok", obj |-> ctrl]

\* Reached: stop was set with paused omitted over a persisted paused=true,
\* and the read shows both.
C4_Witness ==
    /\ pc = "ctl_read_after_set"
    /\ callArgs = <<"none", "true">>
    /\ callPrev = [st |-> "ok", obj |-> [paused |-> "true", stop |-> "false"]]
    /\ ctrl = [paused |-> "true", stop |-> "true"]

\* C5: with writers racing inside set_service_control on the one temporary
\* path, every read of the control state returns the initial state or a
\* state some writer wrote, and never falls back to the default because
\* control.json was partially written.
C5_ReaderSeesOnlyCompleteStates ==
    pc = "race_read" =>
        /\ ~fellBack
        /\ ctrl \in {ReadControl(ctlInit)} \cup written

\* The iteration took the polling branch; a step of it has failed.
InPollBranch == ~SawStop /\ ~SawPaused /\ trading_flag /\ TrackedSet # {}

\* C6: when the provider or a later step of the polling branch raises,
\* error_count grows by exactly 1, the exception does not leave
\* run_service, and with loop_once false the iteration does not end the
\* loop: it goes on to the next control read.
C6_FailedPollCountedAndLoopGoesOn ==
    [][ /\ (LeavesBranch /\ InPollBranch /\ HasFailure(trace')) =>
            /\ error_count' = error_count + 1
            /\ pc' = "backoff"
        /\ (LeavesBranch /\ InPollBranch /\ ~HasFailure(trace')) =>
            error_count' = error_count
        /\ (pc \in {"backoff", "tail", "interval_sleep"} /\ InPollBranch
                /\ HasFailure(trace) /\ ~loop_once) =>
            pc' \in {"backoff", "tail", "interval_sleep", "top"}
      ]_vars

\* C7: every iteration, whatever its branch and whether or not loop_once is
\* set, has written the status object by the time it ends.
C7_StatusWrittenEveryIteration ==
    (iter > 0 /\ pc \in {"top", "done"}) => HasOp(trace, "status")

\* C8: a failure to write the latest file, a log file or the status file
\* inside the loop never leaves run_service.
C8_PersistenceFailuresSwallowed ==
    pc = "crashed" => iter = 0

\* C9: is_trading_time_now is true exactly on Monday to Friday between
\* 09:30 and 11:30 or between 13:00 and 15:00, bounds included.
C9_TradingTimeWindows ==
    pc = "time_out" =>
        LET minutes == now.hour * 60 + now.minute
            weekday == now.date \in {0, 1, 2, 3, 4}
            clock == <<now.hour, now.minute>>
        IN  /\ trading_flag =
                (weekday /\ (  (9 * 60 + 30 <= minutes /\ minutes <= 11 * 60 + 30)
                            \/ (13 * 60 <= minutes /\ minutes <= 15 * 60)))
            /\ (weekday /\ clock \in {<<9, 30>>, <<11, 30>>, <<13, 0>>, <<15, 0>>})
                    => trading_flag
            /\ clock \in {<<9, 29>>, <<11, 31>>, <<12, 59>>, <<15, 1>>} => ~trading_flag
            /\ now.date \in {5, 6} => ~trading_flag

\* Reached: Friday 15:00 evaluated as trading time.
C9_Witness ==
    /\ pc = "time_out"
    /\ now = [date |-> 4, hour |-> 15, minute |-> 0]
    /\ trading_flag

\* C10: an iteration that is neither stopped nor paused, outside trading
\* hours or with nothing tracked, writes one heartbeat record (collection
\* time, off-hours status) over the latest file (the file's content unless
\* the store refuses the write) and creates, appends to, compresses or
\* deletes no log file.
C10_IdleWritesHeartbeatOnly ==
    [][ (LeavesBranch /\ ~SawStop /\ ~SawPaused /\ (~trading_flag \/ TrackedSet = {})) =>
            /\ UNCHANGED <<logs, archives>>
            /\ Len(trace') = 2
            /\ trace'[1].op = "latest"
            /\ trace'[2].op = "status"
            /\ IF trace'[1].ok
               THEN latestFile' = [st |-> "ok",
                                   obj |-> [kind |-> "heartbeat", at |-> now, rows |-> <<>>]]
               ELSE latestFile' = latestFile
      ]_vars

\* Reached: at the end of an off-hours iteration a log file from an earlier
\* poll exists and the latest file is this iteration's heartbeat.
C10_Witness ==
    /\ pc = "tail"
    /\ ~trading_flag /\ TrackedSet # {}
    /\ DOMAIN logs # {}
    /\ latestFile = [st |-> "ok", obj |-> [kind |-> "heartbeat", at |-> now, rows |-> <<>>]]

\* The rows of a table whose instrument is tracked, in the table's order.
TrackedIn(frame) ==
    LET IsTracked(r) == r.code \in TrackedSet
    IN  SelectSeq(frame.rows, IsTracked)
\* The record expected in the latest file and in the log for a row r of the
\* table f fetched at time t.
ExpectedRow(f, r, t) ==
    [code |-> r.code, has_pct |-> f.has_pct, pct |-> r.pct, nan |-> r.nan,
     alert |-> (f.has_pct /\ ~r.nan
                  /\ (r.pct >= cfg["alert_threshold_pct"]
                        \/ 0 - r.pct >= cfg["alert_threshold_pct"])),
     at |-> t]
ExpectedRows(f, t) ==
    [i \in 1..Len(TrackedIn(f)) |-> ExpectedRow(f, TrackedIn(f)[i], t)]
\* The rows of day d's log file; none when the file does not exist.
LogRowsOf(dir, d) == IF d \in DOMAIN dir THEN dir[d].rows ELSE <<>>
ProviderReturned(tr) == Len(tr) >= 1 /\ tr[1].op = "provider" /\ tr[1].ok

\* C11: in a polling iteration where the provider returns a table (with its
\* code and price columns) holding k >= 1 rows of tracked instruments, and
\* no file operation of the iteration fails: the latest file holds exactly
\* those k rows, exactly those k rows are appended to today's log, each with
\* alert true iff the absolute percent change is >= alert_threshold_pct
\* (false without a percent change), no row of an untracked instrument is
\* written, and the status published carries the unchanged error_count (0
\* on a first iteration).  When an operation does fail, the latest file and
\* today's log hold either what they held or those same rows.
C11_PollWritesTrackedRows ==
    [][ (LeavesBranch /\ InPollBranch /\ ProviderReturned(trace')
            /\ fetched'.has_code /\ fetched'.has_price
            /\ Len(TrackedIn(fetched')) >= 1) =>
          LET want == ExpectedRows(fetched', now)
              before == LogRowsOf(logs, now.date)
          IN  /\ \A i \in 1..Len(want) : want[i].code \in TrackedSet
              /\ \/ latestFile' = latestFile
                 \/ latestFile' = [st |-> "ok",
                                   obj |-> [kind |-> "snapshot", at |-> now, rows |-> want]]
              /\ LogRowsOf(logs', now.date) \in {before, before \o want}
              /\ published' # published => published'["error_count"] = error_count
              /\ ~HasFailure(trace') =>
                    /\ latestFile' = [st |-> "ok",
                                      obj |-> [kind |-> "snapshot", at |-> now, rows |-> want]]
                    /\ LogRowsOf(logs', now.date) = before \o want
                    /\ error_count' = error_count
                    /\ iter = 1 => error_count' = 0
                    /\ published'["error_count"] = error_count
                    /\ published'["running"] = TRUE
                    /\ statusFile' = [st |-> "ok", obj |-> published']
                    /\ pc' = "tail"
      ]_vars

\* Reached: the second poll of a day has written two tracked rows out of a
\* table of three, the one at minus the threshold flagged and the one
\* below it not, after a first poll of one row; the status shows no error.
C11_Witness ==
    /\ pc = "tail" /\ iter = 2
    /\ Len(fetched.rows) = 3
    /\ latestFile.st = "ok"
    /\ latestFile.obj.kind = "snapshot"
    /\ Len(latestFile.obj.rows) = 2
    /\ latestFile.obj.rows[1].pct = -3 /\ latestFile.obj.rows[1].alert
    /\ latestFile.obj.rows[2].pct = 2 /\ ~latestFile.obj.rows[2].alert
    /\ Len(LogRowsOf(logs, now.date)) = 3
    /\ statusFile.st = "ok"
    /\ statusFile.obj["error_count"] = 0

\* C12: a polling iteration in which the provider returns a table with no
\* rows, or with rows of untracked instruments only, is an empty poll: no
\* row goes to the latest file or to a log, nothing raises out of the
\* iteration, its only write is a status with running=true and the
\* unchanged error_count, and error_count stays as it was unless that
\* status write itself is refused.
C12_EmptyPollIsNotAnError ==
    [][ (LeavesBranch /\ InPollBranch /\ ProviderReturned(trace')
            /\ (fetched'.has_code \/ Len(fetched'.rows) = 0)
            /\ Len(TrackedIn(fetched')) = 0) =>
          /\ Len(trace') = 2
          /\ trace'[2].op = "status"
          /\ UNCHANGED <<latestFile, logs, archives>>
          /\ published'["running"] = TRUE
          /\ published'["error_count"] = error_count
          /\ pc' # "crashed"
          /\ IF trace'[2].ok
             THEN /\ error_count' = error_count
                  /\ statusFile' = [st |-> "ok", obj |-> published']
                  /\ pc' = "tail"
             ELSE statusFile' = statusFile
      ]_vars

\* Reached: a poll that fetched rows of an untracked instrument only has
\* ended with no log, no error and a status naming this poll.
C12_Witness ==
    /\ pc = "tail"
    /\ Len(fetched.rows) = 1
    /\ fetched.rows[1].code \notin TrackedSet
    /\ logs = NoFiles
    /\ error_count = 0
    /\ statusFile.st = "ok"
    /\ statusFile.obj["last_poll_time"] = now
    /\ statusFile.obj["running"] = TRUE

\* This step is a call of _append_log; the primed lastCall describes it.
IsLogCall == iter' = iter + 1 /\ lastCall'.day >= 0
\* The archive gzip makes of a log file, written in full.
FullArchiveOf(log) == [complete |-> TRUE, headers |-> log.headers, rows |-> log.rows]

\* C13: a call of _append_log at date D with retention_days = R deletes no
\* archive dated D - R or later and changes none of them; when the call
\* reaches its retention pass, every archive dated before D - R is gone
\* afterwards, whole or truncated alike, unless its unlink was refused; with
\* archives D-1..D-10 and R = 7 exactly D-8, D-9 and D-10 go and D-1..D-7
\* remain.
C13_RetentionByFilenameDate ==
    [][ IsLogCall =>
          LET D == lastCall'.day
              R == lastCall'.retention_days
              w == lastCall'.what
          IN  /\ \A d \in DOMAIN archives :
                    d >= D - R => (d \in DOMAIN archives' /\ archives'[d] = archives[d])
              /\ w.swept => \A d \in DOMAIN archives' : d < D - R => d \in w.stuck
              /\ (DOMAIN archives = (D - 10)..(D - 1) /\ R = 7 /\ w.swept /\ w.stuck = {})
                    => /\ DOMAIN archives' = (D - 7)..(D - 1)
                       /\ (DOMAIN archives) \ (DOMAIN archives') = {D - 8, D - 9, D - 10}
      ]_vars

\* Reached: one call on day 10 with retention 7 over the archives of days
\* 0..9 has left those of days 3..9.
C13_Witness ==
    /\ pc = "log_returned" /\ iter = 1
    /\ lastCall.day = 10 /\ lastCall.retention_days = 7
    /\ lastCall.what.stuck = {}
    /\ DOMAIN archives = 3..9
    /\ \A d \in 3..9 : archives[d].complete

\* C14: no call of _append_log rewrites an archive that exists or attempts
\* a compression for a day that has one; and a call on the same day as a
\* call whose housekeeping ran to its end creates no archive, leaves the
\* logs of the other days as they are and compresses nothing (but a log
\* past retention that an earlier failed unlink left behind: its archive
\* is deleted as expired, so its compression is attempted once more).
C14_HousekeepingIdempotent ==
    [][ IsLogCall =>
          LET w == lastCall'.what
              D == lastCall'.day
          IN  /\ \A d \in (DOMAIN archives) \cap (DOMAIN archives') :
                    archives'[d] = archives[d]
              /\ (w.compressed \cup w.bad) \cap (DOMAIN archives) = {}
              /\ (iter >= 1 /\ ~lastCall.what.refused /\ lastCall.what.bad = {}
                    /\ lastCall.day = D) =>
                    LET redo == {d \in DOMAIN logs : d < D - lastCall'.retention_days}
                    IN  /\ w.compressed \cup w.bad \subseteq redo
                        /\ (DOMAIN archives') \ redo \subseteq (DOMAIN archives)
                        /\ \A d \in ((DOMAIN logs) \cup (DOMAIN logs')) \ redo :
                              d # D => (d \in DOMAIN logs /\ d \in DOMAIN logs'
                                          /\ logs'[d] = logs[d])
      ]_vars

\* Reached: a second call on day 10 has returned having compressed nothing,
\* with yesterday's log still next to the archive made of it.
C14_Witness ==
    /\ pc = "log_returned" /\ iter = 2
    /\ lastCall.day = 10
    /\ lastCall.what.compressed = {}
    /\ 9 \in DOMAIN logs
    /\ 9 \in DOMAIN archives
    /\ archives[9] = FullArchiveOf(logs[9])

\* Day d's recorded rows are all in its log file, or all in a complete archive.
RecordsKept(d) ==
    \/ d \in DOMAIN logs /\ logs[d].rows = recorded[d]
    \/ d \in DOMAIN archives /\ archives[d].complete /\ archives[d].rows = recorded[d]

\* C15: in every state, also after a compression that failed or stopped
\* midway, the rows recorded for a day within retention are all in that
\* day's log or all in a complete archive of it; a call deletes a log only
\* when it has written that log's archive in full; and a call in which no
\* compression fails leaves an archive for every log of another day that
\* had none.
C15_LogDeletedOnlyAfterArchive ==
    /\ [](\A d \in DOMAIN recorded :
            d >= now.date - cfg.retention_days => RecordsKept(d))
    /\ [][ IsLogCall =>
             LET w == lastCall'.what
                 D == lastCall'.day
                 R == lastCall'.retention_days
                 Archived(d) == \/ d \in DOMAIN archives'
                                   /\ archives'[d] = FullArchiveOf(logs[d])
                                \/ d < D - R /\ d \notin DOMAIN archives'
             IN  /\ \A d \in (DOMAIN logs) \ (DOMAIN logs') :
                       d # D /\ d \in w.compressed /\ Archived(d)
                 /\ (~w.refused /\ w.bad = {}) =>
                       \A d \in DOMAIN logs :
                          (d # D /\ d \notin DOMAIN archives) => Archived(d)
         ]_vars

\* Reached: the compression of yesterday's log has failed midway; the log
\* is still there in full next to the truncated archive.
C15_Witness ==
    /\ pc = "log_raised"
    /\ lastCall.what.bad = {9} /\ lastCall.what.partial
    /\ 9 \in DOMAIN logs /\ logs[9].rows = recorded[9]
    /\ 9 \in DOMAIN archives /\ ~archives[9].complete
    /\ 9 >= now.date - cfg.retention_days

\* C16: in a call of _append_log whose append succeeded, every log of
\* another day that had no archive is compressed, except one whose own
\* compression failed, and every expired archive is deleted, except one
\* whose own unlink failed.
C16_HousekeepingFailureIsolated ==
    [][ (IsLogCall /\ ~lastCall'.what.refused) =>
          LET w == lastCall'.what
              D == lastCall'.day
              R == lastCall'.retention_days
          IN  /\ \A d \in DOMAIN logs :
                    (d # D /\ d \notin DOMAIN archives /\ d \notin w.bad)
                        => d \in w.compressed
              /\ \A d \in DOMAIN archives :
                    (d < D - R /\ d \notin w.stuck) => d \notin DOMAIN archives'
      ]_vars

\* C17: whenever _append_log is called and the append itself is not
\* refused, the rows handed to it are at the end of today's log afterwards,
\* however housekeeping ended.
C17_AppendSurvivesHousekeeping ==
    [][ (IsLogCall /\ ~lastCall'.what.refused) =>
          /\ lastCall'.day \in DOMAIN logs'
          /\ logs'[lastCall'.day].rows = LogRowsOf(logs, lastCall'.day) \o lastCall'.rows
      ]_vars

\* Reached: the second call of day 10 raised while compressing an older
\* log, and both calls' rows are in the log of day 10.
C17_Witness ==
    /\ pc = "log_raised" /\ iter = 2
    /\ lastCall.day = 10
    /\ lastCall.what.bad # {}
    /\ 10 \in DOMAIN logs
    /\ Len(logs[10].rows) = 2
    /\ <<logs[10].rows[2]>> = lastCall.rows

\* C18: the configuration file, when save_config has written it, holds
\* exactly the four keys tracked_codes, poll_interval_sec,
\* alert_threshold_pct and retention_days, whatever the input dictionary
\* was: each with the input's value, or the default when the input has
\* none, and no other key of the input.
C18_SaveKeepsRecognizedKeysOnly ==
    LET known == {"tracked_codes", "poll_interval_sec", "alert_threshold_pct",
                  "retention_days"}
        dflt == [tracked_codes |-> {}, poll_interval_sec |-> 300,
                 alert_threshold_pct |-> 3, retention_days |-> 7]
    IN  /\ (pc \in {"cfg_saved", "cfg_save_raised", "cfg_loaded"} /\ cfgFile.st = "ok")
                => DOMAIN cfgFile.obj = known
        /\ pc = "cfg_saved" =>
            /\ cfgFile.st = "ok"
            /\ DOMAIN cfgFile.obj = known
            /\ \A k \in known :
                cfgFile.obj[k] = IF k \in DOMAIN cfgArg THEN cfgArg[k] ELSE dflt[k]

\* Reached: {tracked_codes: ["A"], bogus: 1} was saved and the file holds
\* the tracked code and three defaults.
C18_Witness ==
    /\ pc = "cfg_saved"
    /\ DOMAIN cfgArg = {"tracked_codes", "bogus"}
    /\ cfgFile = [st |-> "ok",
                  obj |-> [tracked_codes |-> {"A"}, poll_interval_sec |-> 300,
                           alert_threshold_pct |-> 3, retention_days |-> 7]]

\* C19: load_config on a missing or unparseable configuration file returns
\* the defaults: tracked_codes [], poll_interval_sec 300,
\* alert_threshold_pct 3.0, retention_days 7.
C19_LoadConfigDefaults ==
    (pc = "cfg_loaded" /\ cfgFile.st \in {"absent", "corrupt"}) =>
        cfg = [tracked_codes |-> {}, poll_interval_sec |-> 300,
               alert_threshold_pct |-> 3, retention_days |-> 7]

\* Reached: a save that failed after truncating the file, then a load that
\* returned the defaults.
C19_Witness ==
    /\ pc = "cfg_loaded"
    /\ iter = 1
    /\ cfgFile.st = "corrupt"
    /\ cfg = [tracked_codes |-> {}, poll_interval_sec |-> 300,
              alert_threshold_pct |-> 3, retention_days |-> 7]

\* control.json asks for a stop.
StopRequested ==
    /\ ctlFile.st = "ok"
    /\ "stop" \in DOMAIN ctlFile.obj
    /\ ctlFile.obj["stop"] \in {"true", "1"}
\* run_service is inside its loop, with an iteration still to begin.
LoopRunning ==
    /\ pc \in {"top", "branch", "pause_sleep", "backoff", "tail", "interval_sleep"}
    /\ iter < MaxIter

\* C20: once control.json asks for a stop while the loop is running, and
\* as long as it goes on asking, the loop comes to its end by the break of
\* the stop branch (or of single-iteration mode): run_service returns.
C20_StopEventuallyObserved ==
    (StopRequested /\ LoopRunning) ~> (pc = "done" \/ ~StopRequested)

\* This step is a call of one of the atomic writers.
IsStoreCall == iter' = iter + 1 /\ pc' \in {"store_returned", "store_raised"}

\* C22: a call of _atomic_write_json, _atomic_write_csv or _write_control
\* either returns, and then its target holds the whole new content, or
\* raises, and then that happens exactly when the write of the temporary
\* file or the rename failed, and the target holds what it held before the
\* call; the other files are left alone, and at no moment does a target
\* hold anything but nothing or a complete content.
C22_AtomicWritersAllOrNothing ==
    /\ [](\A f \in {ctlFile, statusFile, latestFile} : f.st \in {"absent", "ok"})
    /\ [][ IsStoreCall =>
             LET path == trace'[1].op
                 before == <<ctlFile, statusFile, latestFile>>
                 after == <<ctlFile', statusFile', latestFile'>>
                 at == CASE path = "control" -> 1 [] path = "status" -> 2 [] OTHER -> 3
             IN  /\ \A i \in {1, 2, 3} : i # at => after[i] = before[i]
                 /\ (pc' = "store_raised") <=> ~trace'[1].ok
                 /\ IF trace'[1].ok
                    THEN after[at] = [st |-> "ok", obj |-> published']
                    ELSE after[at] = before[at]
         ]_vars

\* Reached: a status write whose rename failed has raised; the status file
\* still holds the earlier status, the new one sits in the temporary file.
C22_Witness ==
    /\ pc = "store_raised"
    /\ trace = <<[op |-> "status", ok |-> FALSE, n |-> 0]>>
    /\ statusFile.st = "ok"
    /\ statusFile.obj["running"] = TRUE
    /\ published["running"] = FALSE
    /\ tmpFile["status"] = [st |-> "ok", obj |-> published]

\* C23: whatever savers are inside save_config, a load_config returns the
\* configuration persisted before they started or one that a saver has
\* written, and never the built-in defaults because it found the file
\* empty or partly written.
C23_LoadSeesOldOrNewConfig ==
    pc = "cfg_race_loaded" =>
        /\ ~fellBack
        /\ cfg \in {ctlInit.obj} \cup written \cup {wctrl[w] : w \in {x \in Writers : wpc[x] = "opened"}}

\* C25: for every integer stored as poll_interval_sec (0, negative and
\* below 30 included) the loop sleeps at least 30 seconds between
\* iterations, exactly the stored value when that is 30 or more, and 300
\* when none is stored.
C25_PollIntervalFloor ==
    pc = "slept" =>
        LET slept == trace[1].n
            stored == IF cfgFile.st = "ok" /\ "poll_interval_sec" \in DOMAIN cfgFile.obj
                      THEN cfgFile.obj["poll_interval_sec"] ELSE 300
        IN  /\ trace[1].op = "sleep"
            /\ slept >= 30
            /\ stored >= 30 => slept = stored
            /\ stored < 30 => slept = 30

\* Reached: a stored interval of 0 has given a sleep of 30 seconds.
C25_Witness ==
    /\ pc = "slept"
    /\ cfgFile.st = "ok"
    /\ cfgFile.obj["poll_interval_sec"] = 0
    /\ trace = <<[op |-> "sleep", ok |-> TRUE, n |-> 30]>>

\* s is the beginning of t.
IsPrefix(s, t) == Len(s) <= Len(t) /\ \A i \in 1..Len(s) : t[i] = s[i]

\* C30: every log file holds exactly one header; a call of _append_log
\* whose append is not refused leaves in today's log the header and the
\* rows it held, in place and in order, followed by the rows appended, and
\* a log it creates holds one header and those rows; no call changes the
\* content of a log of another day (housekeeping may only remove the file).
C30_LogAppendOnlyHeaderOnce ==
    /\ [](\A d \in DOMAIN logs : logs[d].headers = 1)
    /\ [][ IsLogCall =>
             LET D == lastCall'.day
                 new == lastCall'.rows
             IN  /\ \A d \in (DOMAIN logs) \cap (DOMAIN logs') :
                       /\ logs'[d].headers = logs[d].headers
                       /\ IsPrefix(logs[d].rows, logs'[d].rows)
                       /\ d # D => logs'[d] = logs[d]
                 /\ D \in DOMAIN logs => D \in DOMAIN logs'
                 /\ ~lastCall'.what.refused =>
                       /\ D \in DOMAIN logs'
                       /\ logs'[D].rows = (IF D \in DOMAIN logs THEN logs[D].rows ELSE <<>>) \o new
                       /\ logs'[D].headers = 1
                 /\ lastCall'.what.refused => logs' = logs
         ]_vars

\* Reached: two calls on day 10, the first created the log; it holds one
\* header, then the first call's row, then the second's.
C30_Witness ==
    /\ pc = "log_returned" /\ iter = 2
    /\ 10 \in DOMAIN logs
    /\ logs[10].headers = 1
    /\ Len(logs[10].rows) = 2
    /\ logs[10].rows[1].at.minute = 1
    /\ logs[10].rows[2].at.minute = 2

\* The trading-time predicate at the iteration's timestamp.
TradingAt(t) ==
    LET minutes == t.hour * 60 + t.minute
    IN  /\ t.date % 7 \in {0, 1, 2, 3, 4}
        /\ \/ (9 * 60 + 30 <= minutes /\ minutes <= 11 * 60 + 30)
           \/ (13 * 60 <= minutes /\ minutes <= 15 * 60)
\* The provider calls an iteration has made so far.
ProviderCalls(tr) == Cardinality({i \in DOMAIN tr : tr[i].op = "provider"})

\* C26: an iteration calls the snapshot provider (once) if and only if its
\* control read showed neither stop nor paused, its timestamp is in trading
\* time, and the tracked set of the configuration loaded at start is not
\* empty; no other step of run_service calls it.
C26_ProviderCalledIffPolling ==
    [][ /\ LeavesBranch =>
            /\ ProviderCalls(trace) = 0
            /\ ProviderCalls(trace') \in {0, 1}
            /\ ProviderCalls(trace') = 1
                  <=> (~SawStop /\ ~SawPaused /\ TradingAt(now) /\ TrackedSet # {})
            /\ cfgFile.st = "ok" => TrackedSet = cfgFile.obj["tracked_codes"]
            /\ cfgFile.st # "ok" => TrackedSet = {}
        /\ ~LeavesBranch => ProviderCalls(trace') <= ProviderCalls(trace)
      ]_vars

\* Reached: the second iteration, in trading time with a tracked code and
\* a control read showing neither flag, has called the provider, which
\* raised; the first iteration, off hours, made no call.
C26_Witness ==
    /\ pc = "backoff" /\ iter = 2
    /\ trace = <<[op |-> "provider", ok |-> FALSE, n |-> 0]>>
    /\ ~SawStop /\ ~SawPaused /\ TradingAt(now) /\ TrackedSet = {"A"}
    /\ latestFile.st = "ok"
    /\ latestFile.obj.kind = "heartbeat"

\* The sleeps of an iteration, in order.
SleepsOf(tr) ==
    LET IsSleep(e) == e.op = "sleep"
        sl == SelectSeq(tr, IsSleep)
    IN  [i \in 1..Len(sl) |-> sl[i].n]
\* The interval configured: the stored poll_interval_sec, 30 at least.
ConfiguredInterval ==
    IF cfg["poll_interval_sec"] >= 30 THEN cfg["poll_interval_sec"] ELSE 30

\* C27: with loop_once false, every iteration neither stopped nor paused
\* goes from its branch (through the 5 s backoff after a failed poll) to
\* the progress update and from there to a sleep of the whole configured
\* interval, whatever time the iteration has taken, and only then to the
\* next control read: that sleep is the iteration's only one, except after
\* a failed poll, where the backoff comes first and the interval sleep
\* follows it.
C27_FullIntervalSleepEveryIteration ==
    [][ /\ (pc' = "top" /\ pc \notin {"top", "init"} /\ ~SawPaused) =>
            /\ ~loop_once
            /\ pc = "interval_sleep"
            /\ trace'[Len(trace')] = [op |-> "sleep", ok |-> TRUE, n |-> ConfiguredInterval]
            /\ SleepsOf(trace') = IF InPollBranch /\ HasFailure(trace)
                                  THEN <<5, ConfiguredInterval>>
                                  ELSE <<ConfiguredInterval>>
        /\ (LeavesBranch /\ ~SawStop /\ ~SawPaused /\ ~loop_once) =>
            pc' \in {"backoff", "tail"}
        /\ (pc = "backoff" /\ pc' # pc) => pc' = "tail"
        /\ (pc = "tail" /\ ~loop_once) => pc' \in {"tail", "interval_sleep"}
        /\ pc = "interval_sleep" => pc' \in {"interval_sleep", "top"}
      ]_vars

\* An iteration has ended: the loop is back at its top or has returned.
IterationEnded == iter > 0 /\ pc \in {"top", "done"}

\* C28: at the end of every iteration the error_count of
\* service_status.json is the number of polls that have failed since the
\* service started (the loop's own counter).
C28_StatusShowsErrorCount ==
    IterationEnded =>
        /\ statusFile.st = "ok"
        /\ statusFile.obj["error_count"] = error_count

\* C29: an iteration neither stopped nor paused leaves in the latest file
\* a table written in this iteration, its snapshot records or one
\* heartbeat record, unless the store refused the write of that file.
C29_LatestOverwrittenEveryIteration ==
    [][ (LeavesBranch /\ ~SawStop /\ ~SawPaused
            /\ ~\E i \in DOMAIN trace' : trace'[i].op = "latest" /\ ~trace'[i].ok) =>
          /\ latestFile'.st = "ok"
          /\ latestFile'.obj.kind \in {"snapshot", "heartbeat"}
          /\ latestFile'.obj.at = now
          /\ HasOp(trace', "latest")
      ]_vars

\* run_service has ended: it has returned, or an exception has left it.
Ended == pc \in {"done", "crashed"}

\* C24: with loop_once true, run_service ends, in every branch and whatever
\* the provider does: it begins no second iteration, its only sleeps are
\* the 2 s pause and the 5 s backoff, never the poll interval, and when it
\* returns it has made exactly one iteration (an exception out of a status
\* write ends it within that iteration, or before it at the initial status).
C24_LoopOnceOneIteration ==
    /\ [](loop_once =>
            /\ iter <= 1
            /\ pc # "interval_sleep"
            /\ \A i \in DOMAIN trace : trace[i].op = "sleep" => trace[i].n \in {2, 5}
            /\ pc = "done" => iter = 1
            /\ (pc = "top" => iter = 0))
    /\ [][ loop_once =>
             /\ pc \in {"pause_sleep", "tail"} => pc' \in {pc, "done"}
             /\ Ended => pc' = pc
         ]_vars
    /\ (loop_once ~> Ended)

\* Reached: in single-iteration mode the paused branch has published its
\* status, slept 2 s and returned.
C24_Witness ==
    /\ loop_once /\ pc = "done" /\ iter = 1
    /\ SawPaused /\ ~SawStop
    /\ trace = <<[op |-> "status", ok |-> TRUE, n |-> 0], [op |-> "sleep", ok |-> TRUE, n |-> 2]>>

\* C21: while control.json has had stop or paused set without interruption
\* since a completed set_service_control call, at most one provider call
\* begins, and none in an iteration whose control read has followed that
\* call: the one call belongs to the iteration that had read the control
\* state before.
C21_ControlLatencyOneIteration ==
    /\ watch.calls <= 1
    /\ watch.reads >= 1 => ProviderCalls(trace) = 0
    /\ watch.calls = 1 =>
          \/ watch.reads = 0 /\ ProviderCalls(trace) = 1
          \/ watch.reads = 1 /\ ProviderCalls(trace) = 0

\* Reached: stop was set after the iteration's control read, the provider
\* call of that iteration was made all the same, and the next iteration
\* has read stop and ended the loop with no further call.
C21_Witness ==
    /\ watch = [reads |-> 1, calls |-> 1]
    /\ pc = "done"
    /\ iter = 2
    /\ ctlFile.st = "ok" /\ ctlFile.obj["stop"] = "true"
    /\ trace = <<[op |-> "status", ok |-> TRUE, n |-> 0]>>

\* C31: run_service reads the configuration once, when it starts: whatever
\* an external process saves afterwards, the loaded configuration stays as
\* it is, every iteration polls or idles by the tracked set loaded at
\* start, the records it writes carry the alert of the loaded threshold,
\* and the interval sleep is the loaded interval; the control state, on the
\* other hand, is what the control file holds at each control read.
C31_ConfigReadOnceAtStart ==
    /\ [][pc = "init" /\ pc' # "init" => cfg' = load_config(cfgFile)]_vars
    /\ [][pc # "init" => cfg' = cfg]_vars
    /\ [][LeavesBranch /\ ~SawStop /\ ~SawPaused =>
            /\ ProviderCalls(trace') = 1 <=> (TradingAt(now) /\ TrackedSet # {})
            /\ (HasOp(trace', "latest") /\ ~HasFailure(trace') /\ ProviderCalls(trace') = 1)
                  => latestFile' = OkFile(Snapshot(now, ExpectedRows(fetched', now)))]_vars
    /\ [][pc = "interval_sleep" /\ pc' = "top" =>
            trace' = Append(trace, Ev("sleep", TRUE, ConfiguredInterval))]_vars
    /\ [][pc = "top" /\ pc' = "branch" => ctrl' = ReadControl(ctlFile)]_vars

\* An iteration in trading time idles on the empty tracked set loaded at
\* start although the configuration file has held a tracked instrument
\* since an external save.
C31_Witness ==
    /\ pc = "tail"
    /\ trading_flag
    /\ TrackedSet = {}
    /\ cfgFile.st = "ok"
    /\ cfgFile.obj["tracked_codes"] # {}
    /\ ProviderCalls(trace) = 0
    /\ HasOp(trace, "latest")

\* C32: every status the loop hands to the status writer has a
\* progress_pct from 0 to 100.  In the progress update it is the elapsed
\* time since the iteration's timestamp as a percentage of the poll
\* interval: 0 when the elapsed time is negative, 100 when it is the
\* interval or more, and the percentage itself (here to the whole percent
\* below) in between; the statuses of the branches carry 0.
C32_ProgressWithinBounds ==
    /\ statusFile.st = "ok" =>
          (statusFile.obj["progress_pct"] >= 0 /\ statusFile.obj["progress_pct"] <= 100)
    /\ pc \in {"interval_sleep", "crashed"} =>
          LET elapsed == trace[1].n
              pct == published["progress_pct"]
          IN  /\ pct >= 0 /\ pct <= 100
              /\ elapsed < 0 => pct = 0
              /\ elapsed >= ConfiguredInterval => pct = 100
              /\ (elapsed >= 0 /\ elapsed < ConfiguredInterval) =>
                    /\ pct * ConfiguredInterval <= elapsed * 100
                    /\ elapsed * 100 < (pct + 1) * ConfiguredInterval
              /\ trace[1].ok => statusFile = OkFile(published)

\* Reached: with the interval at its floor of 30 s, a clock set back by 5 s
\* has given 0, and the file holds it.
C32_Witness ==
    /\ pc = "interval_sleep"
    /\ trace[1].n = -5
    /\ ConfiguredInterval = 30
    /\ statusFile.obj["progress_pct"] = 0

\* The iteration's branch has written its status.
BranchPublished == \E i \in DOMAIN trace : trace[i].op = "status" /\ trace[i].ok

\* C33: the loop does not consult service_status.json.  Whatever the file
\* held when the service started and whatever another process has written
\* to it since, the status the progress update writes is the status the
\* iteration's branch has just written with progress_pct updated, and the
\* steps of the loop other than status writes leave the file alone.
C33_StatusFileNeverConsulted ==
    /\ [][(pc = "tail" /\ pc' # "tail" /\ ~loop_once /\ BranchPublished)
            => [published' EXCEPT !["progress_pct"] = 0] = published]_vars
    /\ [][(loopVars' # loopVars /\ published' = published)
            => statusFile' = statusFile]_vars

\* Every caller has left set_service_control.
AllReturned == \A w \in Writers : wpc[w] \in {"returned", "raised"}

\* C34: when a call set_service_control(stop=True) and a call
\* set_service_control(paused=True) run at the same time, the control
\* state persisted once all calls are over has both stop and paused set.
C34_ConcurrentFieldsBothKept ==
    AllReturned =>
        /\ Truthy(DictGet(ReadControl(ctlFile), "stop", PyFalse))
        /\ Truthy(DictGet(ReadControl(ctlFile), "paused", PyFalse))

\* C35: no call of _append_log compresses or deletes the log named for the
\* call's own date: that file is still there after the call, with the rows
\* it held at the beginning, and the call makes no archive of it; the logs
\* a call compresses or removes are those of other days, so a day's log is
\* compressed by an append made on another day.
C35_TodayLogNotHousekept ==
    [][ IsLogCall =>
          LET D == lastCall'.day
          IN  /\ D \in DOMAIN logs =>
                    /\ D \in DOMAIN logs'
                    /\ IsPrefix(logs[D].rows, logs'[D].rows)
              /\ ~lastCall'.what.refused => D \in DOMAIN logs'
              /\ D \in DOMAIN archives' =>
                    (D \in DOMAIN archives /\ archives'[D] = archives[D])
              /\ \A d \in DOMAIN logs' \cup DOMAIN logs :
                    (d \notin DOMAIN logs' \/ (d \notin DOMAIN archives /\ d \in DOMAIN archives'))
                        => d # D
      ]_vars

\* Reached: the log of day 10, created and left in place by the call of day
\* 10, has been compressed and removed by the call of day 11, which left
\* its own log.
C35_Witness ==
    /\ pc = "log_returned" /\ iter = 2
    /\ lastCall.day = 11
    /\ 11 \in DOMAIN logs
    /\ 10 \notin DOMAIN logs
    /\ 10 \in DOMAIN archives
    /\ archives[10].complete
    /\ Len(archives[10].rows) = 1

\* The position of the first status event of a trace (0 when it has none).
StatusAt(tr) ==
    IF HasOp(tr, "status")
    THEN CHOOSE i \in DOMAIN tr :
            tr[i].op = "status" /\ \A j \in 1..(i - 1) : tr[j].op # "status"
    ELSE 0

\* C36: a branch hands a status with a last_poll_time to the status writer
\* only in a poll whose earlier steps have all succeeded, with the
\* iteration's timestamp as last_poll_time; when the poll had a tracked row
\* the latest file has by then been written and the log append has
\* returned, in that order.  A poll whose latest write or log append
\* failed hands no status to the writer, and the progress update that
\* follows only repeats the last_poll_time the status file already held.
C36_PollStatusAfterWrites ==
    /\ [][(LeavesBranch /\ HasOp(trace', "status")
             /\ published'["last_poll_time"] # NoneTime) =>
            LET s == StatusAt(trace')
            IN  /\ InPollBranch
                /\ published'["last_poll_time"] = now
                /\ \A j \in 1..(s - 1) : trace'[j].ok
                /\ (fetched'.has_code /\ fetched'.has_price
                      /\ Len(TrackedIn(fetched')) >= 1) =>
                      /\ s = 4
                      /\ trace'[2].op = "latest" /\ trace'[3].op = "log"
                      /\ latestFile' = OkFile(Snapshot(now, ExpectedRows(fetched', now)))
                      /\ now.date \in DOMAIN logs'
                      /\ \E k \in 0..Len(logs'[now.date].rows) :
                            logs'[now.date].rows =
                                SubSeq(logs'[now.date].rows, 1, k) \o ExpectedRows(fetched', now)
         ]_vars
    /\ [][(LeavesBranch /\ InPollBranch
             /\ \E i \in DOMAIN trace' :
                   trace'[i].op \in {"latest", "log"} /\ ~trace'[i].ok) =>
            /\ ~HasOp(trace', "status")
            /\ statusFile' = statusFile
            /\ published' = published
         ]_vars
    /\ [][(pc \in {"backoff", "tail"} /\ published' # published) =>
            /\ statusFile.st = "ok"
            /\ published'["last_poll_time"] = statusFile.obj["last_poll_time"]
         ]_vars

\* Reached: a poll with a tracked row has written the latest file, appended
\* to the log and then published its timestamp as last_poll_time.
C36_Witness ==
    /\ pc = "tail"
    /\ Len(trace) = 4
    /\ trace[2] = Ev("latest", TRUE, 1)
    /\ trace[3] = Ev("log", TRUE, 1)
    /\ trace[4] = Ev("status", TRUE, 0)
    /\ statusFile.obj["last_poll_time"] = now
    /\ latestFile.obj.at = now

\* C37: once service_status.json holds a last_poll_time, every status
\* written over it in the same run (by the stop, paused, polling and idle
\* branches and by the progress update) holds a last_poll_time too, and
\* not an earlier one.
C37_LastPollTimeKept ==
    [][ (statusFile.st = "ok" /\ statusFile.obj["last_poll_time"] # NoneTime
           /\ statusFile' # statusFile) =>
          /\ statusFile'.st = "ok"
          /\ statusFile'.obj["last_poll_time"] # NoneTime
          /\ TimeLeq(statusFile.obj["last_poll_time"], statusFile'.obj["last_poll_time"])
      ]_vars

\* C38: every object run_service hands to the status writer, the one of
\* the progress update included, has exactly the nine status fields, and
\* carries the pid of the process and the start time of the run.
C38_StatusAlwaysComplete ==
    (pc # "init" /\ published # EmptyDict) =>
        /\ DOMAIN published = StatusKeys
        /\ published["pid"] = "pid"
        /\ published["start_time"] = start_ts

\* C39: no step of run_service writes control.json or the configuration
\* file, so the stop request it has obeyed is still in control.json when
\* it returns; and a run_service that starts while stop is persisted, with
\* nobody taking the request back, reads it at its first control read and
\* leaves through the stop branch: it begins one iteration, calls no
\* provider, writes no latest file and no log, and never sleeps.
C39_StopRequestOutlivesTheRun ==
    /\ [][(pc' # pc \/ trace' # trace) =>
            (ctlFile' = ctlFile /\ cfgFile' = cfgFile)]_vars
    /\ [][(LeavesBranch /\ SawStop) =>
            /\ pc' \in {"done", "crashed"}
            /\ ProviderCalls(trace') = 0
            /\ latestFile' = latestFile /\ logs' = logs /\ archives' = archives
            /\ StopRequested => StopRequested']_vars
    /\ []((pc = "init" /\ StopRequested) =>
            [](/\ iter <= 1
               /\ ProviderCalls(trace) = 0
               /\ ~HasOp(trace, "latest") /\ ~HasOp(trace, "log") /\ ~HasOp(trace, "sleep")
               /\ pc \in {"init", "top", "branch", "done", "crashed"}
               /\ pc = "branch" => SawStop))

\* Reached: a run that polled or idled was stopped through control.json and
\* run again; the second run has left at its first iteration, and its final
\* status is in the file next to the latest file of the first run.
C39_Witness ==
    /\ pc = "done"
    /\ iter = 1
    /\ SawStop
    /\ StopRequested
    /\ latestFile.st = "ok"
    /\ statusFile.st = "ok"
    /\ statusFile.obj["running"] = FALSE
    /\ statusFile.obj["stop_requested"] = TRUE

\* C40: save_config does not merge over the file: in every call that writes
\* it, each recognized key the input omits is persisted with its built-in
\* default (tracked_codes [], poll_interval_sec 300, alert_threshold_pct 3,
\* retention_days 7), whether the file before the call was missing,
\* unparseable or held another value for the key, and each recognized key
\* the input has is persisted with the input's value.
C40_SaveConfigResetsOmittedKeys ==
    [][(iter' = iter + 1 /\ pc' = "cfg_saved") =>
        LET known == {"tracked_codes", "poll_interval_sec", "alert_threshold_pct",
                      "retention_days"}
            dflt == [tracked_codes |-> {}, poll_interval_sec |-> 300,
                     alert_threshold_pct |-> 3, retention_days |-> 7]
        IN  /\ cfgFile'.st = "ok"
            /\ \A k \in known :
                /\ k \in DOMAIN cfgFile'.obj
                /\ k \notin DOMAIN cfgArg' => cfgFile'.obj[k] = dflt[k]
                /\ k \in DOMAIN cfgArg' => cfgFile'.obj[k] = cfgArg'[k]]_vars

\* Reached: a poll interval of 60 and the code "A" were saved and loaded
\* back, then a dictionary with neither key was saved: the file has the
\* interval 300 and no tracked code.
C40_Witness ==
    /\ pc = "cfg_saved"
    /\ iter = 2
    /\ cfg["poll_interval_sec"] = 60
    /\ cfg["tracked_codes"] = {"A"}
    /\ "poll_interval_sec" \notin DOMAIN cfgArg
    /\ "tracked_codes" \notin DOMAIN cfgArg
    /\ cfgFile.st = "ok"
    /\ cfgFile.obj["poll_interval_sec"] = 300
    /\ cfgFile.obj["tracked_codes"] = {}

=============================================================================
